---- MODULE Spec2Model ----
(***************************************************************************)
(* State-machine model of contracts/ChessBet.sol: the game / bet          *)
(* lifecycle, the escrow ledger, the unlimited-tier order book with its   *)
(* matching pass, and the owner's administrative and emergency calls.     *)
(* Every external function of the contract is one action; a call that     *)
(* reverts changes nothing, so a reverting call is a call whose action is  *)
(* not enabled.                                                            *)
(***************************************************************************)
EXTENDS Integers, Sequences, FiniteSets, TLC

(***************************************************************************)
(* Program constants                                                       *)
(***************************************************************************)
USDC_UNIT == 1000000
RESULT_WHITE == 0
RESULT_BLACK == 1
RESULT_DRAW == 2
BPS_DENOMINATOR == 10000
MAX_FEE_BPS == 1000
MAX_MOVES == 200
MAX_MOVE_BYTES == 16
INIT_FEE_BPS == 500
INIT_TOLERANCE == 5

(***************************************************************************)
(* Bounds of the model                                                     *)
(***************************************************************************)
MaxCreationCalls == 2   \* createGame and placeOrder calls in one behaviour
MaxGames == 1           \* distinct game identifiers in existence
MaxSideSteps == 1       \* steps outside any game's or order's own lifecycle:
                        \* fee and tier changes, withdrawals, a new block
MaxBookOrders == 4      \* placeOrder calls in one behaviour of the order book
MaxBookBlocks == 1      \* blocks mined in one behaviour of the order book
MaxQuantizeTicks == 12  \* the largest amount quantized, in whole ticks
MaxManagerOrders == 3   \* placeOrder calls in one behaviour of the off-chain book
MaxMirrorOrders == 3    \* placeOrder calls made on both order books
MaxPoolBets == 2        \* bets queued in one off-chain pool
MaxEngineBets == 3      \* bets placed on the off-chain betting engine
MaxMatches == 1         \* matches the off-chain match keeper creates
MaxMatchMoves == 2      \* moves made in one off-chain match
MaxCountedGames == 2    \* games counted in one player's statistics
MaxEscrowOrders == 4    \* placeOrder calls in one behaviour of the settled order book

(***************************************************************************)
(* Input domains                                                           *)
(***************************************************************************)
NoAddress == 0
Owner == 3
Users == {1, 2}
Addresses == Users \cup {Owner}
TimeControls == {300}
Sides == {0, 1}
Results == {RESULT_WHITE, RESULT_BLACK, RESULT_DRAW}
Creators == {1}
Tiers == {0, 2}
FeeChoices == {MAX_FEE_BPS}
BetAmounts == {5 * USDC_UNIT, 10 * USDC_UNIT + 19}
TierChoices == {<<10 * USDC_UNIT + 19, 50 * USDC_UNIT>>}
OrderAmounts == {200 * USDC_UNIT, 215 * USDC_UNIT}
MoveBytes == {4, 16, 17}
QuantizeOffsets == {0, 1, 5 * USDC_UNIT, 10 * USDC_UNIT - 1}
QuantizeInputs ==
    {k * (10 * USDC_UNIT) + d : k \in 0..MaxQuantizeTicks, d \in QuantizeOffsets}
BookInputs ==
    (Users \X Sides \X TimeControls \X OrderAmounts)
        \cup {<<1, 0, 600, 200 * USDC_UNIT>>, <<2, 1, 300, 220 * USDC_UNIT>>}

VARIABLES
    games,              \* gameId -> Game
    bettingPools,       \* gameId -> BettingPool
    gameBets,           \* gameId -> sequence of GameBet
    pendingPayouts,     \* address -> credited, unclaimed balance
    houseFeePercentage, \* basis points
    lowTierAmount,
    mediumTierAmount,
    orders,             \* orderId -> Order
    orderbookLevels,    \* <<timeControl, side, tick>> -> OrderbookLevel
    resultSubmitted,    \* gameId -> address -> BOOLEAN
    resultValue,        \* gameId -> address -> result
    resultResolved,     \* gameId -> BOOLEAN
    resultFinal,        \* gameId -> result
    tickSize,
    tolerancePercentage,
    tokenFeeBalance,    \* accumulated fees
    paused,             \* Pausable._paused
    tokenBalance,       \* token.balanceOf(address(this))
    blockNumber,        \* block.number (block.timestamp moves with it)
    creationCalls,      \* number of successful createGame and placeOrder calls
    sideSteps,          \* number of configuration, withdrawal and block steps
    placed,             \* the orderId each placeOrder call returned, in call order
    amountIn,           \* an amount handed to _quantizeAmount
    quantized,          \* what _quantizeAmount returned for it, and for that result
    allOrders,          \* OrderbookManager: every Order, in the order of placement
    orderbooks,         \* OrderbookManager: <<timeControl, side>> -> levels, oldest first
    matches,            \* OrderbookManager: every match made, in the order made
    gameMatches,        \* GameManager.games: every GameMatch, in the order created
    players,            \* GameManager.players: address -> Player
    waitingQueues,      \* GameManager.waitingQueues: tier -> addresses waiting
    pools,              \* BettingEngine.pools: gameId -> BettingPool
    allBets             \* BettingEngine.bets: every Bet, in the order placed

vars == <<games, bettingPools, gameBets, pendingPayouts, houseFeePercentage,
          lowTierAmount, mediumTierAmount, orders, orderbookLevels,
          resultSubmitted, resultValue, resultResolved, resultFinal, tickSize,
          tolerancePercentage, tokenFeeBalance, paused, tokenBalance,
          blockNumber, creationCalls, sideSteps, placed, amountIn, quantized,
          allOrders, orderbooks, matches, gameMatches, players, waitingQueues,
          pools, allBets>>

gameVars == <<games, bettingPools, gameBets>>
voteVars == <<resultSubmitted, resultValue, resultResolved, resultFinal>>
bookVars == <<orders, orderbookLevels>>
paramVars == <<houseFeePercentage, lowTierAmount, mediumTierAmount, tickSize,
               tolerancePercentage>>
boundVars == <<creationCalls, sideSteps>>
quantizeVars == <<amountIn, quantized>>
managerVars == <<allOrders, orderbooks, matches>>
engineVars == <<gameMatches, players, waitingQueues, pools, allBets>>
offchainVars == <<managerVars, engineVars>>
auxVars == <<placed, quantizeVars, offchainVars>>

(***************************************************************************)
(* Helpers                                                                 *)
(***************************************************************************)
Min_unclamped(a, b) == a

Min(a, b) == IF a < b THEN a ELSE b

\* (amount * bps) / 10000 in uint256 arithmetic, split so that no
\* intermediate product leaves the range of the model checker's integers.
FeeOf(amount, bps) ==
    (amount \div BPS_DENOMINATOR) * bps
        + ((amount % BPS_DENOMINATOR) * bps) \div BPS_DENOMINATOR

\* keccak256(abi.encodePacked(...)): distinct argument tuples give distinct
\* identifiers, equal tuples give the same identifier.
GameIdOf(whitePlayer, blackPlayer, ts) == <<"game", whitePlayer, blackPlayer, 0, ts>>
MatchIdOf(whitePlayer, blackPlayer, amount, ts) ==
    <<"match", whitePlayer, blackPlayer, amount, ts>>
OrderIdOf(player, side, quantizedAmount, timeControl, ts) ==
    <<player, side, quantizedAmount, timeControl, ts>>

NewGame(whitePlayer, blackPlayer, timeControl, bettingTier) ==
    [whitePlayer |-> whitePlayer, blackPlayer |-> blackPlayer, status |-> 0,
     result |-> 0, bettingTier |-> bettingTier, timeControl |-> timeControl,
     pgnLength |-> 0, moveCount |-> 0]

NewPool == [totalAmount |-> 0, houseFee |-> 0, resolved |-> FALSE, winner |-> NoAddress]

NewBet(player, amount) == [player |-> player, amount |-> amount, status |-> 0, payout |-> 0]

\* f with key k set to v, whether or not k is already in its domain
Put(f, k, v) == [x \in DOMAIN f \cup {k} |-> IF x = k THEN v ELSE f[x]]

gameExists(gameId) == gameId \in DOMAIN games

isGamePlayer_anyone(sender, gameId) == TRUE

isGamePlayer(sender, gameId) ==
    sender = games[gameId].whitePlayer \/ sender = games[gameId].blackPlayer

\* sum over the bets of `bets` (a sequence) of what[i], for the bets of player p
RECURSIVE SumFor(_, _, _, _)
SumFor(bets, what, p, i) ==
    IF i > Len(bets) THEN 0
    ELSE (IF bets[i].player = p THEN what[i] ELSE 0) + SumFor(bets, what, p, i + 1)

RECURSIVE SumSeq(_, _)
SumSeq(s, i) == IF i > Len(s) THEN 0 ELSE s[i] + SumSeq(s, i + 1)

Init ==
    /\ games = <<>>
    /\ bettingPools = <<>>
    /\ gameBets = <<>>
    /\ pendingPayouts = [a \in Addresses |-> 0]
    /\ houseFeePercentage = INIT_FEE_BPS
    /\ lowTierAmount = 5 * USDC_UNIT
    /\ mediumTierAmount = 50 * USDC_UNIT
    /\ orders = <<>>
    /\ orderbookLevels = <<>>
    /\ resultSubmitted = <<>>
    /\ resultValue = <<>>
    /\ resultResolved = <<>>
    /\ resultFinal = <<>>
    /\ tickSize = 10 * USDC_UNIT
    /\ tolerancePercentage = INIT_TOLERANCE
    /\ tokenFeeBalance = 0
    /\ paused = FALSE
    /\ tokenBalance = 0
    /\ blockNumber = 0
    /\ creationCalls = 0
    /\ sideSteps = 0
    /\ placed = <<>>
    /\ amountIn = 0
    /\ quantized = <<>>
    /\ allOrders = <<>>
    /\ orderbooks = <<>>
    /\ matches = <<>>
    /\ gameMatches = <<>>
    /\ players = <<>>
    /\ waitingQueues = [t \in {"low", "medium", "unlimited"} |-> <<>>]
    /\ pools = <<>>
    /\ allBets = <<>>

(***************************************************************************)
(* Modifiers                                                               *)
(***************************************************************************)
\* faulty variant of whenNotPaused: the modifier is missing
whenNotPaused_ignored == TRUE

whenNotPaused == ~paused

onlyOwner(sender) == sender = Owner

gameNotFinished(gameId) == games[gameId].status # 2

(***************************************************************************)
(* Game management                                                         *)
(***************************************************************************)
createGame(sender, blackPlayer, timeControl, bettingTier) ==
    /\ whenNotPaused
    /\ blackPlayer # NoAddress
    /\ blackPlayer # sender
    /\ bettingTier <= 2
    /\ LET gameId == GameIdOf(sender, blackPlayer, blockNumber)
           fresh == gameId \notin DOMAIN games
       IN  /\ games' = Put(games, gameId,
                           NewGame(sender, blackPlayer, timeControl, bettingTier))
           /\ bettingPools' = Put(bettingPools, gameId, NewPool)
           \* the other mappings keep whatever they hold under this key
           /\ gameBets' = IF fresh THEN Put(gameBets, gameId, <<>>) ELSE gameBets
           /\ resultSubmitted' =
                  IF fresh THEN Put(resultSubmitted, gameId, [a \in Addresses |-> FALSE])
                  ELSE resultSubmitted
           /\ resultValue' =
                  IF fresh THEN Put(resultValue, gameId, [a \in Addresses |-> 0])
                  ELSE resultValue
           /\ resultResolved' =
                  IF fresh THEN Put(resultResolved, gameId, FALSE) ELSE resultResolved
           /\ resultFinal' = IF fresh THEN Put(resultFinal, gameId, 0) ELSE resultFinal
    /\ UNCHANGED <<pendingPayouts, paramVars, bookVars, tokenFeeBalance, paused,
                   tokenBalance, blockNumber>>

startGame(sender, gameId) ==
    /\ gameExists(gameId)
    /\ isGamePlayer(sender, gameId)
    /\ games[gameId].status = 0
    /\ games' = [games EXCEPT ![gameId].status = 1]
    /\ UNCHANGED <<bettingPools, gameBets, pendingPayouts, paramVars, bookVars,
                   voteVars, tokenFeeBalance, paused, tokenBalance, blockNumber>>

\* move is the byte length of the move string; game.pgn is kept as its length
makeMove(sender, gameId, move) ==
    /\ gameExists(gameId)
    /\ isGamePlayer(sender, gameId)
    /\ games[gameId].status = 1
    /\ move <= MAX_MOVE_BYTES
    /\ games' = IF games[gameId].moveCount < MAX_MOVES
                THEN [games EXCEPT
                        ![gameId].pgnLength = IF @ > 0 THEN @ + 1 + move ELSE move,
                        ![gameId].moveCount = @ + 1]
                ELSE games
    /\ UNCHANGED <<bettingPools, gameBets, pendingPayouts, paramVars, bookVars,
                   voteVars, tokenFeeBalance, paused, tokenBalance, blockNumber>>

(***************************************************************************)
(* _resolveBets: the outcome of resolving gameId's pool with `result` in    *)
(* the current state.  ok is FALSE when one of its require()s fails.       *)
(***************************************************************************)
\* faulty variant of the draw branch: the pool's fee is charged on a draw
_resolveDraw_feeCharged(gameId) ==
    LET pool == bettingPools[gameId]
        bets == gameBets[gameId]
    IN  [ok |-> ~pool.resolved /\ Len(bets) = 2,
         pool |-> [pool EXCEPT !.resolved = TRUE, !.winner = NoAddress],
         bets |-> [i \in DOMAIN bets |->
                      [bets[i] EXCEPT !.status = 3, !.payout = bets[i].amount]],
         pending |-> [a \in Addresses |->
                         pendingPayouts[a]
                           + SumFor(bets, [i \in DOMAIN bets |-> bets[i].amount], a, 1)],
         fee |-> tokenFeeBalance + pool.houseFee]

\* the draw branch: every bet is refunded, no fee is charged
_resolveDraw(gameId) ==
    LET pool == bettingPools[gameId]
        bets == gameBets[gameId]
    IN  [ok |-> ~pool.resolved /\ Len(bets) = 2,
         pool |-> [pool EXCEPT !.resolved = TRUE, !.winner = NoAddress, !.houseFee = 0],
         bets |-> [i \in DOMAIN bets |->
                      [bets[i] EXCEPT !.status = 3, !.payout = bets[i].amount]],
         pending |-> [a \in Addresses |->
                         pendingPayouts[a]
                           + SumFor(bets, [i \in DOMAIN bets |-> bets[i].amount], a, 1)],
         fee |-> tokenFeeBalance]

\* the decisive branch: the fee is credited, the winner takes the net pool
_resolveDecisive(gameId, result) ==
    LET pool == bettingPools[gameId]
        bets == gameBets[gameId]
        winner == IF result = RESULT_WHITE THEN games[gameId].whitePlayer
                  ELSE games[gameId].blackPlayer
        netPool == pool.totalAmount - pool.houseFee
    IN  [ok |-> ~pool.resolved /\ Len(bets) = 2 /\ pool.houseFee <= pool.totalAmount,
         pool |-> [pool EXCEPT !.resolved = TRUE, !.winner = winner],
         bets |-> [i \in DOMAIN bets |->
                      IF bets[i].player = winner
                      THEN [bets[i] EXCEPT !.status = 0, !.payout = netPool]
                      ELSE [bets[i] EXCEPT !.status = 1, !.payout = 0]],
         pending |-> [a \in Addresses |->
                         IF a = winner
                         THEN pendingPayouts[a]
                                + SumFor(bets, [i \in DOMAIN bets |-> netPool], a, 1)
                         ELSE pendingPayouts[a]],
         fee |-> tokenFeeBalance + pool.houseFee]

_resolveBets(gameId, result) ==
    IF result = RESULT_DRAW THEN _resolveDraw(gameId)
    ELSE _resolveDecisive(gameId, result)

\* the part of a finishing call that is common to agreement and override
FinishWith(gameId, result, R) ==
    /\ R.ok
    /\ resultResolved' = [resultResolved EXCEPT ![gameId] = TRUE]
    /\ resultFinal' = [resultFinal EXCEPT ![gameId] = result]
    /\ games' = [games EXCEPT ![gameId].status = 2, ![gameId].result = result]
    /\ bettingPools' = [bettingPools EXCEPT ![gameId] = R.pool]
    /\ gameBets' = [gameBets EXCEPT ![gameId] = R.bets]
    /\ pendingPayouts' = R.pending
    /\ tokenFeeBalance' = R.fee

otherPlayerOf(sender, gameId) ==
    IF sender = games[gameId].whitePlayer THEN games[gameId].blackPlayer
    ELSE games[gameId].whitePlayer

\* faulty variant of votesAgree: a draw vote is taken to agree with any vote
votesAgree_drawAgreesWithAll(otherSubmitted, otherResult, result) ==
    otherSubmitted /\ (otherResult = result \/ result = RESULT_DRAW)

\* if (otherSubmitted && otherResult == result)
votesAgree(otherSubmitted, otherResult, result) ==
    otherSubmitted /\ otherResult = result

submitGameResult(sender, gameId, result) ==
    /\ gameExists(gameId)
    /\ isGamePlayer(sender, gameId)
    /\ result <= 2
    /\ games[gameId].status = 1
    /\ ~resultResolved[gameId]
    /\ resultSubmitted' = [resultSubmitted EXCEPT ![gameId][sender] = TRUE]
    /\ resultValue' = [resultValue EXCEPT ![gameId][sender] = result]
    /\ LET otherPlayer == otherPlayerOf(sender, gameId)
           otherSubmitted == resultSubmitted'[gameId][otherPlayer]
           otherResult == resultValue'[gameId][otherPlayer]
       IN  IF votesAgree(otherSubmitted, otherResult, result)
           THEN FinishWith(gameId, result, _resolveBets(gameId, result))
           ELSE UNCHANGED <<games, bettingPools, gameBets, pendingPayouts,
                            tokenFeeBalance, resultResolved, resultFinal>>
    /\ UNCHANGED <<paramVars, bookVars, paused, tokenBalance, blockNumber>>

\* faulty variant of bothSubmitted: one recorded vote is enough
bothSubmitted_either(gameId) ==
    \/ resultSubmitted[gameId][games[gameId].whitePlayer]
    \/ resultSubmitted[gameId][games[gameId].blackPlayer]

bothSubmitted(gameId) ==
    /\ resultSubmitted[gameId][games[gameId].whitePlayer]
    /\ resultSubmitted[gameId][games[gameId].blackPlayer]

resolveDisputedGame(sender, gameId, result) ==
    /\ onlyOwner(sender)
    /\ gameExists(gameId)
    /\ result <= 2
    /\ ~resultResolved[gameId]
    /\ games[gameId].status = 1
    /\ bothSubmitted(gameId)
    /\ FinishWith(gameId, result, _resolveBets(gameId, result))
    /\ UNCHANGED <<resultSubmitted, resultValue, paramVars, bookVars, paused,
                   tokenBalance, blockNumber>>

(***************************************************************************)
(* Betting                                                                 *)
(***************************************************************************)
_isValidBetAmount(bettingTier, amount) ==
    IF bettingTier = 0 THEN amount = lowTierAmount
    ELSE IF bettingTier = 1 THEN amount = mediumTierAmount
    ELSE IF bettingTier = 2 THEN amount >= 1 * USDC_UNIT
    ELSE FALSE

placeBet(sender, gameId, amount) ==
    /\ gameExists(gameId)
    /\ gameNotFinished(gameId)
    /\ whenNotPaused
    /\ games[gameId].status = 0
    /\ isGamePlayer(sender, gameId)
    /\ _isValidBetAmount(games[gameId].bettingTier, amount)
    /\ \A i \in DOMAIN gameBets[gameId] : gameBets[gameId][i].player # sender
    /\ tokenBalance' = tokenBalance + amount
    /\ gameBets' = [gameBets EXCEPT ![gameId] = Append(@, NewBet(sender, amount))]
    /\ LET total == bettingPools[gameId].totalAmount + amount
       IN  bettingPools' = [bettingPools EXCEPT
                               ![gameId].totalAmount = total,
                               ![gameId].houseFee = FeeOf(total, houseFeePercentage)]
    /\ games' = IF Len(gameBets'[gameId]) = 2
                THEN [games EXCEPT ![gameId].status = 1]
                ELSE games
    /\ UNCHANGED <<pendingPayouts, paramVars, bookVars, voteVars, tokenFeeBalance,
                   paused, blockNumber>>

claimPayout_keepsBalance(sender) ==
    /\ pendingPayouts[sender] > 0
    /\ pendingPayouts[sender] <= tokenBalance
    /\ tokenBalance' = tokenBalance - pendingPayouts[sender]
    /\ UNCHANGED <<gameVars, pendingPayouts, paramVars, bookVars, voteVars,
                   tokenFeeBalance, paused, blockNumber>>

claimPayout(sender) ==
    /\ pendingPayouts[sender] > 0
    /\ pendingPayouts[sender] <= tokenBalance   \* token.safeTransfer reverts otherwise
    /\ pendingPayouts' = [pendingPayouts EXCEPT ![sender] = 0]
    /\ tokenBalance' = tokenBalance - pendingPayouts[sender]
    /\ UNCHANGED <<gameVars, paramVars, bookVars, voteVars, tokenFeeBalance, paused,
                   blockNumber>>

withdrawTokenFees_creditsOwner(sender) ==
    /\ onlyOwner(sender)
    /\ tokenFeeBalance > 0
    /\ tokenFeeBalance' = 0
    /\ pendingPayouts' = [pendingPayouts EXCEPT ![sender] = @ + tokenFeeBalance]
    /\ UNCHANGED <<gameVars, paramVars, bookVars, voteVars, paused, tokenBalance,
                   blockNumber>>

withdrawTokenFees(sender) ==
    /\ onlyOwner(sender)
    /\ tokenFeeBalance > 0
    /\ tokenFeeBalance <= tokenBalance \* token.safeTransfer reverts otherwise
    /\ tokenFeeBalance' = 0
    /\ tokenBalance' = tokenBalance - tokenFeeBalance
    /\ UNCHANGED <<gameVars, pendingPayouts, paramVars, bookVars, voteVars, paused,
                   blockNumber>>

(***************************************************************************)
(* Administration and emergency                                            *)
(***************************************************************************)
setHouseFeePercentage(sender, _houseFeePercentage) ==
    /\ onlyOwner(sender)
    /\ _houseFeePercentage <= MAX_FEE_BPS
    /\ _houseFeePercentage >= 0
    /\ houseFeePercentage' = _houseFeePercentage
    /\ UNCHANGED <<gameVars, pendingPayouts, lowTierAmount, mediumTierAmount,
                   tickSize, tolerancePercentage, bookVars, voteVars,
                   tokenFeeBalance, paused, tokenBalance, blockNumber>>

setBettingTierAmounts(sender, _lowTierAmount, _mediumTierAmount) ==
    /\ onlyOwner(sender)
    /\ _lowTierAmount > 0
    /\ _mediumTierAmount > _lowTierAmount
    /\ _lowTierAmount >= tickSize
    /\ _mediumTierAmount >= tickSize
    /\ lowTierAmount' = _lowTierAmount
    /\ mediumTierAmount' = _mediumTierAmount
    /\ UNCHANGED <<gameVars, pendingPayouts, houseFeePercentage, tickSize,
                   tolerancePercentage, bookVars, voteVars, tokenFeeBalance, paused,
                   tokenBalance, blockNumber>>

pause(sender) ==
    /\ onlyOwner(sender)
    /\ ~paused
    /\ paused' = TRUE
    /\ UNCHANGED <<gameVars, pendingPayouts, paramVars, bookVars, voteVars,
                   tokenFeeBalance, tokenBalance, blockNumber>>

unpause(sender) ==
    /\ onlyOwner(sender)
    /\ paused
    /\ paused' = FALSE
    /\ UNCHANGED <<gameVars, pendingPayouts, paramVars, bookVars, voteVars,
                   tokenFeeBalance, tokenBalance, blockNumber>>

\* faulty variant of the refund loop: pending bets are left as they are
refundPending_skip(bets) == bets

\* the refund loop of pauseGame's else-branch
refundPending(bets) ==
    [i \in DOMAIN bets |->
        IF bets[i].status = 0
        THEN [bets[i] EXCEPT !.status = 3, !.payout = bets[i].amount]
        ELSE bets[i]]

pauseGame(sender, gameId) ==
    /\ onlyOwner(sender)
    /\ gameExists(gameId)
    /\ games[gameId].status # 2
    /\ LET bets == gameBets[gameId]
           R == _resolveBets(gameId, RESULT_DRAW)
       IN  IF Len(bets) = 2
           THEN /\ R.ok
                /\ bettingPools' = [bettingPools EXCEPT ![gameId] = R.pool]
                /\ gameBets' = [gameBets EXCEPT ![gameId] = R.bets]
                /\ pendingPayouts' = R.pending
           ELSE /\ gameBets' = [gameBets EXCEPT ![gameId] = refundPending(bets)]
                /\ pendingPayouts' =
                       [a \in Addresses |->
                           pendingPayouts[a]
                             + SumFor(bets,
                                      [i \in DOMAIN bets |->
                                          IF bets[i].status = 0 THEN bets[i].amount
                                          ELSE 0],
                                      a, 1)]
                /\ bettingPools' = [bettingPools EXCEPT
                                       ![gameId].resolved = TRUE,
                                       ![gameId].winner = NoAddress,
                                       ![gameId].houseFee = 0]
    /\ games' = [games EXCEPT ![gameId].status = 2, ![gameId].result = RESULT_DRAW]
    /\ resultResolved' = [resultResolved EXCEPT ![gameId] = TRUE]
    /\ resultFinal' = [resultFinal EXCEPT ![gameId] = RESULT_DRAW]
    /\ UNCHANGED <<resultSubmitted, resultValue, paramVars, bookVars,
                   tokenFeeBalance, paused, tokenBalance, blockNumber>>

\* a new block is mined: block.number and block.timestamp advance
NextBlock ==
    /\ blockNumber' = blockNumber + 1
    /\ UNCHANGED <<gameVars, pendingPayouts, paramVars, bookVars, voteVars,
                   tokenFeeBalance, paused, tokenBalance>>

(***************************************************************************)
(* Order book of the unlimited tier.  A matching pass works on a record S  *)
(* holding the storage it reads and writes; S.ok turns FALSE when a        *)
(* require() or a checked subtraction fails, which reverts the whole call. *)
(***************************************************************************)
EmptyLevel == [tickAmount |-> 0, orderIds |-> <<>>, totalAmount |-> 0]

LevelAt(levels, key) == IF key \in DOMAIN levels THEN levels[key] ELSE EmptyLevel

_quantizeAmount_roundsUp(amount) == ((amount + tickSize - 1) \div tickSize) * tickSize

_quantizeAmount(amount) == (amount \div tickSize) * tickSize

\* level.orderIds[0] = level.orderIds[length - 1]; level.orderIds.pop()
SwapPop(ids, i) ==
    IF i = Len(ids) THEN SubSeq(ids, 1, Len(ids) - 1)
    ELSE [k \in 1..(Len(ids) - 1) |-> IF k = i THEN ids[Len(ids)] ELSE ids[k]]

_createMatch(S, whiteOrder, blackOrder, amount) ==
    LET whitePlayer == IF whiteOrder.side = 0 THEN whiteOrder.player ELSE blackOrder.player
        blackPlayer == IF whiteOrder.side = 1 THEN whiteOrder.player ELSE blackOrder.player
        gameId == MatchIdOf(whitePlayer, blackPlayer, amount, blockNumber)
        fresh == gameId \notin DOMAIN S.games
        oldBets == IF fresh THEN <<>> ELSE S.bets[gameId]
        \* _recordBet twice: the fee is recomputed from the running total
        total == amount + amount
    IN  [S EXCEPT
            !.ok = S.ok /\ amount > 0,
            !.games = Put(S.games, gameId,
                          [NewGame(whitePlayer, blackPlayer, whiteOrder.timeControl, 2)
                              EXCEPT !.status = 1]),
            !.pools = Put(S.pools, gameId,
                          [NewPool EXCEPT !.totalAmount = total,
                                          !.houseFee = FeeOf(total, houseFeePercentage)]),
            !.bets = Put(S.bets, gameId,
                         oldBets \o <<NewBet(whitePlayer, amount),
                                      NewBet(blackPlayer, amount)>>)]

\* one iteration of the while loop of _matchAtLevel, entered with
\* remainingAmount > 0 and a non-empty queue
MatchStep(S, orderId, key, remainingAmount) ==
    LET level == LevelAt(S.levels, key)
        oppositeOrderId == level.orderIds[1]
        order == S.orders[orderId]
        oppositeOrder == S.orders[oppositeOrderId]
        oppositeRemaining == oppositeOrder.amount - oppositeOrder.filledAmount
        matchAmount == Min(remainingAmount, oppositeRemaining)
        M == _createMatch(S, order, oppositeOrder, matchAmount)
        full == oppositeOrder.filledAmount + matchAmount >= oppositeOrder.amount
    IN  IF \/ oppositeOrder.filledAmount > oppositeOrder.amount
           \/ (matchAmount > 0 /\ level.totalAmount < matchAmount)
        THEN [S EXCEPT !.ok = FALSE]          \* a checked subtraction underflows
        ELSE IF matchAmount = 0
        THEN \* a fully filled order still at the head is popped
             [S EXCEPT
                !.orders = [S.orders EXCEPT ![oppositeOrderId].status = 2],
                !.levels = Put(S.levels, key,
                               [level EXCEPT !.orderIds = SwapPop(@, 1)])]
        ELSE [M EXCEPT
                !.orders = [M.orders EXCEPT
                              ![orderId].filledAmount = @ + matchAmount,
                              ![oppositeOrderId] =
                                  [oppositeOrder EXCEPT
                                     !.filledAmount = @ + matchAmount,
                                     !.status = IF full THEN 2 ELSE @]],
                !.levels = Put(M.levels, key,
                               [level EXCEPT
                                  !.totalAmount = @ - matchAmount,
                                  !.orderIds = IF full THEN SwapPop(@, 1) ELSE @])]

\* the local remainingAmount after an iteration that took S to T
AfterStep(S, T, orderId) ==
    [T EXCEPT !.remainingAmount =
        @ - (T.orders[orderId].filledAmount - S.orders[orderId].filledAmount)]

\* while (remainingAmount > 0 && level.orderIds.length > 0) { ... }
RECURSIVE MatchLoop(_, _, _)
MatchLoop(S, orderId, key) ==
    IF \/ ~S.ok
       \/ S.remainingAmount = 0
       \/ Len(LevelAt(S.levels, key).orderIds) = 0
    THEN S
    ELSE MatchLoop(AfterStep(S, MatchStep(S, orderId, key, S.remainingAmount), orderId),
                   orderId, key)

\* the status update that ends _matchAtLevel
UpdateOrderStatus(T, orderId) ==
    [T EXCEPT !.orders[orderId].status =
        IF T.orders[orderId].filledAmount >= T.orders[orderId].amount THEN 2
        ELSE IF T.orders[orderId].filledAmount > 0 THEN 1
        ELSE @]

_matchAtLevel(S, orderId, key, maxAmount) ==
    IF ~S.ok \/ S.orders[orderId].filledAmount > S.orders[orderId].amount
    THEN [S EXCEPT !.ok = FALSE]
    ELSE UpdateOrderStatus(
           MatchLoop([S EXCEPT !.remainingAmount =
                         Min(maxAmount,
                             S.orders[orderId].amount - S.orders[orderId].filledAmount)],
                     orderId, key),
           orderId)

Remaining(S, orderId) == S.orders[orderId].amount - S.orders[orderId].filledAmount

LevelKey(S, orderId, oppositeSide, tick) ==
    <<S.orders[orderId].timeControl, oppositeSide, tick>>

\* The two level scans of _matchNearestLevels.  dir = 1 is the for loop from
\* tickAmount + tickSize up to maxTick, dir = -1 the while loop from
\* tickAmount - tickSize down to minTick; `limit` is maxTick or minTick and
\* S.remainingAmount is the local remainingAmount of _matchNearestLevels.
RECURSIVE ScanLevels(_, _, _, _, _, _)
RECURSIVE ScanBody(_, _, _, _, _, _, _)
ScanLevels(S, orderId, oppositeSide, tick, dir, limit) ==
    IF \/ ~S.ok
       \/ ~(IF dir = 1 THEN tick <= limit ELSE tick >= limit)
       \/ ~(S.remainingAmount > 0)
    THEN S
    ELSE IF Len(LevelAt(S.levels, LevelKey(S, orderId, oppositeSide, tick)).orderIds) > 0
    THEN ScanBody(_matchAtLevel(S, orderId, LevelKey(S, orderId, oppositeSide, tick),
                                S.remainingAmount),
                  TRUE, orderId, oppositeSide, tick, dir, limit)
    ELSE ScanBody(S, FALSE, orderId, oppositeSide, tick, dir, limit)

\* the rest of one iteration: T is the storage after the level was tried
ScanBody(T, hit, orderId, oppositeSide, tick, dir, limit) ==
    IF ~T.ok THEN T
    ELSE IF hit /\ Remaining(T, orderId) = 0 THEN [T EXCEPT !.remainingAmount = 0]
    ELSE IF dir = -1 /\ tick < tickSize
    THEN [T EXCEPT !.remainingAmount = IF hit THEN Remaining(T, orderId) ELSE @]
    ELSE ScanLevels([T EXCEPT !.remainingAmount =
                        IF hit THEN Remaining(T, orderId) ELSE @],
                    orderId, oppositeSide, tick + dir * tickSize, dir, limit)

ToleranceAmount_inTicks(order) == tolerancePercentage * tickSize

ToleranceAmount(order) == (order.tickAmount * tolerancePercentage) \div 100

\* the descending scan, entered with the storage the ascending scan left
ScanDown(up, orderId, oppositeSide) ==
    IF up.ok /\ up.orders[orderId].tickAmount >= tickSize
    THEN ScanLevels(up, orderId, oppositeSide,
                    up.orders[orderId].tickAmount - tickSize, -1,
                    IF up.orders[orderId].tickAmount > ToleranceAmount(up.orders[orderId])
                    THEN up.orders[orderId].tickAmount
                           - ToleranceAmount(up.orders[orderId])
                    ELSE 0)
    ELSE up

\* faulty variant: the levels below are searched before the levels above
_matchNearestLevels_downFirst(S, orderId, oppositeSide, maxAmount) ==
    ScanLevels(ScanDown([S EXCEPT !.remainingAmount = maxAmount], orderId, oppositeSide),
               orderId, oppositeSide,
               S.orders[orderId].tickAmount + tickSize, 1,
               S.orders[orderId].tickAmount + ToleranceAmount(S.orders[orderId]))

_matchNearestLevels(S, orderId, oppositeSide, maxAmount) ==
    ScanDown(ScanLevels([S EXCEPT !.remainingAmount = maxAmount], orderId, oppositeSide,
                        S.orders[orderId].tickAmount + tickSize, 1,
                        S.orders[orderId].tickAmount
                          + ToleranceAmount(S.orders[orderId])),
             orderId, oppositeSide)

\* the second half of _attemptMatch: S1 is the storage after the exact level
AfterExactLevel(S1, orderId, oppositeSide) ==
    IF S1.ok /\ S1.orders[orderId].status \in {0, 1} /\ Remaining(S1, orderId) > 0
    THEN _matchNearestLevels(S1, orderId, oppositeSide, Remaining(S1, orderId))
    ELSE S1

OppositeSide(side) == IF side = 0 THEN 1 ELSE 0

_attemptMatch(S, orderId) ==
    IF S.orders[orderId].status # 0 THEN S
    ELSE IF LevelAt(S.levels,
                    LevelKey(S, orderId, OppositeSide(S.orders[orderId].side),
                             S.orders[orderId].tickAmount)).totalAmount > 0
    THEN AfterExactLevel(
           _matchAtLevel(S, orderId,
                         LevelKey(S, orderId, OppositeSide(S.orders[orderId].side),
                                  S.orders[orderId].tickAmount),
                         Remaining(S, orderId)),
           orderId, OppositeSide(S.orders[orderId].side))
    ELSE AfterExactLevel(S, orderId, OppositeSide(S.orders[orderId].side))

\* the vote mappings read as their defaults under the key of a game a match created
WithDefault(f, ids, d) == [g \in ids |-> IF g \in DOMAIN f THEN f[g] ELSE d]

\* storage as placeOrder leaves it before it calls _attemptMatch
WithNewOrder(sender, side, timeControl, quantizedAmount) ==
    LET orderId == OrderIdOf(sender, side, quantizedAmount, timeControl, blockNumber)
        key == <<timeControl, side, quantizedAmount>>
        level == LevelAt(orderbookLevels, key)
    IN  [ok |-> TRUE,
         orders |-> Put(orders, orderId,
                        [player |-> sender, side |-> side, amount |-> quantizedAmount,
                         tickAmount |-> quantizedAmount, timeControl |-> timeControl,
                         filledAmount |-> 0, status |-> 0]),
         levels |-> Put(orderbookLevels, key,
                        [tickAmount |-> quantizedAmount,
                         orderIds |-> Append(level.orderIds, orderId),
                         totalAmount |-> level.totalAmount + quantizedAmount]),
         games |-> games, pools |-> bettingPools, bets |-> gameBets,
         remainingAmount |-> 0]

\* the storage S of a finished matching pass becomes the contract's storage
CommitPass(S) ==
    /\ S.ok
    /\ orders' = S.orders
    /\ orderbookLevels' = S.levels
    /\ games' = S.games
    /\ bettingPools' = S.pools
    /\ gameBets' = S.bets
    /\ resultSubmitted' = WithDefault(resultSubmitted, DOMAIN S.games,
                                      [a \in Addresses |-> FALSE])
    /\ resultValue' = WithDefault(resultValue, DOMAIN S.games, [a \in Addresses |-> 0])
    /\ resultResolved' = WithDefault(resultResolved, DOMAIN S.games, FALSE)
    /\ resultFinal' = WithDefault(resultFinal, DOMAIN S.games, 0)

orderAmountAccepted_anyPositive(amount) == amount > 0

\* require(amount >= tickSize); require(quantizedAmount > 0)
orderAmountAccepted(amount) == amount >= tickSize /\ _quantizeAmount(amount) > 0

placeOrder(sender, side, timeControl, amount) ==
    /\ whenNotPaused
    /\ side <= 1
    /\ orderAmountAccepted(amount)
    /\ tokenBalance' = tokenBalance + _quantizeAmount(amount)
    /\ CommitPass(_attemptMatch(
                    WithNewOrder(sender, side, timeControl, _quantizeAmount(amount)),
                    OrderIdOf(sender, side, _quantizeAmount(amount), timeControl,
                              blockNumber)))
    /\ UNCHANGED <<pendingPayouts, paramVars, tokenFeeBalance, paused, blockNumber>>

RECURSIVE IndexOf(_, _, _)
IndexOf(ids, x, i) ==
    IF i > Len(ids) THEN 0 ELSE IF ids[i] = x THEN i ELSE IndexOf(ids, x, i + 1)

cancelOrder(sender, orderId) ==
    /\ orderId \in DOMAIN orders
    /\ orders[orderId].player = sender
    /\ orders[orderId].status \in {0, 1}
    /\ LET order == orders[orderId]
           key == <<order.timeControl, order.side, order.tickAmount>>
           level == LevelAt(orderbookLevels, key)
           at == IndexOf(level.orderIds, orderId, 1)
           refundAmount == order.amount - order.filledAmount
       IN  /\ order.filledAmount <= order.amount
           /\ refundAmount <= level.totalAmount
           /\ refundAmount <= tokenBalance   \* token.safeTransfer reverts otherwise
           /\ orders' = [orders EXCEPT ![orderId].status = 3]
           /\ orderbookLevels' =
                  Put(orderbookLevels, key,
                      [level EXCEPT
                          !.orderIds = IF at = 0 THEN @ ELSE SwapPop(@, at),
                          !.totalAmount = @ - refundAmount])
           /\ tokenBalance' = tokenBalance - refundAmount
    /\ UNCHANGED <<gameVars, pendingPayouts, paramVars, voteVars, tokenFeeBalance,
                   paused, blockNumber>>

(***************************************************************************)
(* Specification                                                           *)
(***************************************************************************)
ExistingGames == DOMAIN games

\* A call that creates a game or an order; the model follows at most
\* MaxCreationCalls of them and at most MaxGames game identifiers.
Creation(call) ==
    /\ creationCalls < MaxCreationCalls
    /\ call
    /\ Cardinality(DOMAIN games') <= MaxGames
    /\ creationCalls' = creationCalls + 1
    /\ UNCHANGED <<sideSteps, auxVars>>

\* A call or event outside any game's or order's own lifecycle; the model
\* follows at most MaxSideSteps of them.
Side(call) ==
    /\ sideSteps < MaxSideSteps
    /\ call
    /\ sideSteps' = sideSteps + 1
    /\ UNCHANGED <<creationCalls, auxVars>>

\* Any other call.
Call(call) == call /\ UNCHANGED <<boundVars, auxVars>>

Next ==
    \/ \E s \in Creators, b \in Users, tc \in TimeControls, t \in Tiers :
          Creation(createGame(s, b, tc, t))
    \/ \E s \in Users, g \in ExistingGames : Call(startGame(s, g))
    \/ \E s \in Users, g \in ExistingGames, r \in Results :
          Call(submitGameResult(s, g, r))
    \/ \E s \in Addresses, g \in ExistingGames, r \in Results :
          Call(resolveDisputedGame(s, g, r))
    \/ \E s \in Users, g \in ExistingGames, a \in BetAmounts : Call(placeBet(s, g, a))
    \/ \E s \in Addresses : Side(claimPayout(s))
    \/ \E s \in Addresses : Side(withdrawTokenFees(s))
    \/ \E s \in Users, sd \in Sides, tc \in TimeControls, a \in OrderAmounts :
          Creation(placeOrder(s, sd, tc, a))
    \/ \E s \in Users, o \in DOMAIN orders : Call(cancelOrder(s, o))
    \/ \E s \in Addresses, f \in FeeChoices : Side(setHouseFeePercentage(s, f))
    \/ \E s \in Addresses, t \in TierChoices : Side(setBettingTierAmounts(s, t[1], t[2]))
    \/ \E s \in Addresses : Call(pause(s))
    \/ \E s \in Addresses : Call(unpause(s))
    \/ \E s \in Addresses, g \in ExistingGames : Call(pauseGame(s, g))
    \/ Side(NextBlock)

Spec == Init /\ [][Next]_vars

(***************************************************************************)
(* The contract with an owner who keeps acting: a pauseGame call that      *)
(* stays possible is eventually made.                                      *)
(***************************************************************************)
OwnerUnwinds == \E g \in DOMAIN games : Call(pauseGame(Owner, g))

FairSpec == Spec /\ WF_vars(OwnerUnwinds)

(***************************************************************************)
(* The order book on its own: placeOrder, cancelOrder and new blocks, with *)
(* longer sequences of orders than Spec follows.  `placed` logs the order  *)
(* ids in the order of the calls that placed them.                         *)
(***************************************************************************)
Placing(call, orderId) ==
    /\ Len(placed) < MaxBookOrders
    /\ call
    /\ placed' = Append(placed, orderId)
    /\ UNCHANGED <<boundVars, quantizeVars, offchainVars>>

BookCall(call) == call /\ UNCHANGED <<boundVars, auxVars>>

BookBlock ==
    /\ blockNumber < MaxBookBlocks
    /\ NextBlock
    /\ UNCHANGED <<boundVars, auxVars>>

BookNext ==
    \/ \E in \in BookInputs :
          Placing(placeOrder(in[1], in[2], in[3], in[4]),
                  OrderIdOf(in[1], in[2], _quantizeAmount(in[4]), in[3], blockNumber))
    \/ \E s \in Users, o \in DOMAIN orders : BookCall(cancelOrder(s, o))
    \/ BookBlock

BookSpec == Init /\ [][BookNext]_vars

(***************************************************************************)
(* The move log on its own: one game is created, started, played move by   *)
(* move up to and beyond the cap of the log, and ended by the owner.       *)
(***************************************************************************)
MoveNext ==
    \/ \E s \in Creators, b \in Users :
          games = <<>> /\ Call(createGame(s, b, 300, 2))
    \/ \E s \in Addresses, g \in DOMAIN games : Call(startGame(s, g))
    \/ \E s \in Addresses, g \in DOMAIN games, m \in MoveBytes : Call(makeMove(s, g, m))
    \/ \E s \in Addresses, g \in DOMAIN games : Call(pauseGame(s, g))

MoveSpec == Init /\ [][MoveNext]_vars

(***************************************************************************)
(* _quantizeAmount on its own: an amount is drawn, quantized, and the      *)
(* result quantized again.                                                 *)
(***************************************************************************)
storageVars == <<gameVars, voteVars, bookVars, paramVars, pendingPayouts,
                 tokenFeeBalance, paused, tokenBalance, blockNumber>>

QuantizeInit ==
    /\ games = <<>>
    /\ bettingPools = <<>>
    /\ gameBets = <<>>
    /\ pendingPayouts = [a \in Addresses |-> 0]
    /\ houseFeePercentage = INIT_FEE_BPS
    /\ lowTierAmount = 5 * USDC_UNIT
    /\ mediumTierAmount = 50 * USDC_UNIT
    /\ orders = <<>>
    /\ orderbookLevels = <<>>
    /\ resultSubmitted = <<>>
    /\ resultValue = <<>>
    /\ resultResolved = <<>>
    /\ resultFinal = <<>>
    /\ tickSize = 10 * USDC_UNIT
    /\ tolerancePercentage = INIT_TOLERANCE
    /\ tokenFeeBalance = 0
    /\ paused = FALSE
    /\ tokenBalance = 0
    /\ blockNumber = 0
    /\ creationCalls = 0
    /\ sideSteps = 0
    /\ placed = <<>>
    /\ amountIn \in QuantizeInputs
    /\ quantized = <<>>
    /\ allOrders = <<>>
    /\ orderbooks = <<>>
    /\ matches = <<>>
    /\ gameMatches = <<>>
    /\ players = <<>>
    /\ waitingQueues = [t \in {"low", "medium", "unlimited"} |-> <<>>]
    /\ pools = <<>>
    /\ allBets = <<>>

Quantize ==
    /\ quantized = <<>>
    /\ quantized' = <<_quantizeAmount(amountIn)>>
    /\ UNCHANGED <<storageVars, boundVars, placed, amountIn, offchainVars>>

QuantizeAgain ==
    /\ Len(quantized) = 1
    /\ quantized' = Append(quantized, _quantizeAmount(quantized[1]))
    /\ UNCHANGED <<storageVars, boundVars, placed, amountIn, offchainVars>>

QuantizeNext == Quantize \/ QuantizeAgain

QuantizeSpec == QuantizeInit /\ [][QuantizeNext]_vars

(***************************************************************************)
(* The off-chain order book: class OrderbookManager.  Its amounts are     *)
(* bigints in wei (18 decimals); the model counts them in units of 10^12   *)
(* wei, so that one token is WEI_UNIT and an off-chain amount is the same  *)
(* number as the contract's 6-decimal amount of as many tokens.  Order and *)
(* game ids are random strings, taken to be fresh: an order's id is its    *)
(* position in allOrders, a game's id its position in matches.  The        *)
(* manager's own BettingEngine holds one empty pool per entry of matches.  *)
(***************************************************************************)
WEI_UNIT == 1000000
TICK_SIZE == 10 * WEI_UNIT
TOLERANCE_PERCENTAGE == 5

OffchainSides == {"white", "black"}

quantizeAmount(amount) == (amount \div TICK_SIZE) * TICK_SIZE

NewOrder(playerAddress, side, amount, timeControl) ==
    [playerAddress |-> playerAddress, side |-> side, amount |-> amount,
     tickAmount |-> quantizeAmount(amount), timeControl |-> timeControl,
     filledAmount |-> 0, status |-> "open"]

NewLevel(tickAmount) == [tickAmount |-> tickAmount, orders |-> <<>>, totalAmount |-> 0]

\* the levels of one side of one time control, a Map in insertion order
LevelsOf(levels, key) == IF key \in DOMAIN levels THEN levels[key] ELSE <<>>

\* position of the level with this tickAmount (levels.get), 0 if there is none
RECURSIVE LevelIndex(_, _, _)
LevelIndex(levels, tickAmount, i) ==
    IF i > Len(levels) THEN 0
    ELSE IF levels[i].tickAmount = tickAmount THEN i
    ELSE LevelIndex(levels, tickAmount, i + 1)

\* one iteration of the while loop of matchAtLevel: createMatch, the match
\* record, both fills, the level total, and the shift of a filled head
MatchOnce(B, orderId, key, li, remainingAmount) ==
    LET oppositeId == B.levels[key][li].orders[1]
        order == B.orders[orderId]
        oppositeOrder == B.orders[oppositeId]
        oppositeLeft == oppositeOrder.amount - oppositeOrder.filledAmount
        matchAmount == IF remainingAmount < oppositeLeft THEN remainingAmount
                       ELSE oppositeLeft
        full == oppositeOrder.filledAmount + matchAmount >= oppositeOrder.amount
    IN  [B EXCEPT
            !.matches = Append(@,
                [whiteOrder |-> IF order.side = "white" THEN orderId ELSE oppositeId,
                 blackOrder |-> IF order.side = "black" THEN orderId ELSE oppositeId,
                 matchAmount |-> matchAmount]),
            !.orders[orderId].filledAmount = @ + matchAmount,
            !.orders[oppositeId].filledAmount = @ + matchAmount,
            !.orders[oppositeId].status = IF full THEN "filled" ELSE @,
            !.levels[key][li].totalAmount = @ - matchAmount,
            !.levels[key][li].orders = IF full THEN Tail(@) ELSE @,
            !.remainingAmount = remainingAmount - matchAmount]

\* B carries the book and the pass's remainingAmount
RECURSIVE matchAtLevel(_, _, _, _)
matchAtLevel(B, orderId, key, li) ==
    IF B.remainingAmount > 0 /\ Len(B.levels[key][li].orders) > 0
    THEN matchAtLevel(MatchOnce(B, orderId, key, li, B.remainingAmount),
                      orderId, key, li)
    ELSE B

Distance(a, b) == IF a > b THEN a - b ELSE b - a

\* Array.prototype.sort is stable: levels at the same distance keep the
\* order in which the Map holds them
RECURSIVE SortByDistance(_, _, _)
SortByDistance(levels, indices, tickAmount) ==
    IF indices = {} THEN <<>>
    ELSE LET first == CHOOSE i \in indices : \A j \in indices :
                          \/ Distance(levels[i].tickAmount, tickAmount)
                                < Distance(levels[j].tickAmount, tickAmount)
                          \/ /\ Distance(levels[i].tickAmount, tickAmount)
                                  = Distance(levels[j].tickAmount, tickAmount)
                             /\ i <= j
         IN  <<first>> \o SortByDistance(levels, indices \ {first}, tickAmount)

candidateLevels(levels, tickAmount) ==
    LET toleranceAmount == (tickAmount * TOLERANCE_PERCENTAGE) \div 100
        minTick == tickAmount - toleranceAmount
        maxTick == tickAmount + toleranceAmount
    IN  SortByDistance(levels,
                       {i \in 1..Len(levels) : /\ levels[i].tickAmount >= minTick
                                               /\ levels[i].tickAmount <= maxTick},
                       tickAmount)

\* the for loop of matchNearestLevels over the candidates found before it
RECURSIVE MatchCandidates(_, _, _, _)
MatchCandidates(B, orderId, key, candidates) ==
    IF candidates = <<>> \/ B.remainingAmount <= 0 THEN B
    ELSE MatchCandidates(matchAtLevel(B, orderId, key, Head(candidates)),
                         orderId, key, Tail(candidates))

matchNearestLevels(B, orderId, key) ==
    MatchCandidates(B, orderId, key,
                    candidateLevels(LevelsOf(B.levels, key), B.orders[orderId].tickAmount))

OppositeOf(side) == IF side = "white" THEN "black" ELSE "white"

AfterExact(B, orderId, key) ==
    IF B.remainingAmount > 0 THEN matchNearestLevels(B, orderId, key) ELSE B

StatusAfterPass(B, orderId) ==
    [B EXCEPT !.orders[orderId].status =
        IF B.remainingAmount = 0 THEN "filled"
        ELSE IF B.orders[orderId].filledAmount > 0 THEN "partially_filled"
        ELSE @]

ExactPass(B, orderId, key, exact) ==
    IF exact # 0 THEN matchAtLevel(B, orderId, key, exact) ELSE B

attemptMatch(B, orderId, key) ==
    StatusAfterPass(
        AfterExact(
            ExactPass([B EXCEPT !.remainingAmount =
                          B.orders[orderId].amount - B.orders[orderId].filledAmount],
                      orderId, key,
                      LevelIndex(LevelsOf(B.levels, key), B.orders[orderId].tickAmount, 1)),
            orderId, key),
        orderId)

\* the order is stored, its level created if need be, and the order queued
WithOrderQueued(order, key, levels, li) ==
    [orders |-> Append(allOrders, order),
     levels |-> Put(orderbooks, key,
                    [levels EXCEPT ![li].orders = Append(@, Len(allOrders) + 1),
                                   ![li].totalAmount = @ + order.tickAmount]),
     matches |-> matches,
     remainingAmount |-> 0]

WithLevel(levels, tickAmount) ==
    IF LevelIndex(levels, tickAmount, 1) = 0 THEN Append(levels, NewLevel(tickAmount))
    ELSE levels

CommitBook(B) ==
    /\ allOrders' = B.orders
    /\ orderbooks' = B.levels
    /\ matches' = B.matches

OrderbookManager_placeOrder(playerAddress, side, amount, timeControl) ==
    /\ quantizeAmount(amount) # 0      \* "Amount too small after quantization"
    /\ CommitBook(
         attemptMatch(
           WithOrderQueued(
             NewOrder(playerAddress, side, amount, timeControl),
             <<timeControl, side>>,
             WithLevel(LevelsOf(orderbooks, <<timeControl, side>>), quantizeAmount(amount)),
             LevelIndex(WithLevel(LevelsOf(orderbooks, <<timeControl, side>>),
                                  quantizeAmount(amount)),
                        quantizeAmount(amount), 1)),
           Len(allOrders) + 1,
           <<timeControl, OppositeOf(side)>>))

RECURSIVE PositionOf(_, _, _)
PositionOf(ids, x, i) ==
    IF i > Len(ids) THEN 0 ELSE IF ids[i] = x THEN i ELSE PositionOf(ids, x, i + 1)

Splice(s, i) == SubSeq(s, 1, i - 1) \o SubSeq(s, i + 1, Len(s))

\* cancelOrder returns false and changes nothing for an unknown, filled or
\* cancelled order
Cancellable(orderId) ==
    /\ orderId \in 1..Len(allOrders)
    /\ allOrders[orderId].status \in {"open", "partially_filled"}

OrderbookManager_cancelOrder(orderId) ==
    IF Cancellable(orderId)
    THEN LET order == allOrders[orderId]
             key == <<order.timeControl, order.side>>
             li == LevelIndex(LevelsOf(orderbooks, key), order.tickAmount, 1)
             index == IF li = 0 THEN 0
                      ELSE PositionOf(orderbooks[key][li].orders, orderId, 1)
         IN  /\ allOrders' = [allOrders EXCEPT ![orderId].status = "cancelled"]
             /\ orderbooks' =
                  IF index = 0 THEN orderbooks
                  ELSE [orderbooks EXCEPT
                          ![key][li].orders = Splice(@, index),
                          ![key][li].totalAmount =
                              @ - (order.amount - order.filledAmount)]
             /\ UNCHANGED matches
    ELSE UNCHANGED managerVars

(***************************************************************************)
(* The off-chain order book on its own, with amounts that are and are not  *)
(* multiples of the tick.                                                  *)
(***************************************************************************)
ManagerInputs ==
    Users \X OffchainSides \X {100 * WEI_UNIT, 103 * WEI_UNIT, 105 * WEI_UNIT, 3 * WEI_UNIT}

ManagerPlace(in) ==
    /\ Len(allOrders) < MaxManagerOrders
    /\ OrderbookManager_placeOrder(in[1], in[2], in[3], 300)
    /\ UNCHANGED <<storageVars, boundVars, placed, quantizeVars, engineVars>>

ManagerCancel(orderId) ==
    /\ Cancellable(orderId)
    /\ OrderbookManager_cancelOrder(orderId)
    /\ UNCHANGED <<storageVars, boundVars, placed, quantizeVars, engineVars>>

ManagerNext ==
    \/ \E in \in ManagerInputs : ManagerPlace(in)
    \/ \E orderId \in 1..Len(allOrders) : ManagerCancel(orderId)

ManagerSpec == Init /\ [][ManagerNext]_vars

(***************************************************************************)
(* The off-chain betting pools: class BettingEngine.  A Bet object is      *)
(* known by its position in allBets (its id string is taken to be fresh);  *)
(* the bet lists of a pool hold those positions.  resolvedAt is followed   *)
(* as the flag `resolved`, a pool's result before resolution as "unset",   *)
(* the GameResult null as "null".  The odds shown to a bettor are kept as  *)
(* the fraction <<numerator, denominator>> they are computed from.         *)
(***************************************************************************)
HOUSE_FEE_BPS == 500

BetSides == {"white", "black", "draw"}
GameResults == {"white", "black", "draw", "null"}

NewBettingPool ==
    [whiteBets |-> <<>>, blackBets |-> <<>>, drawBets |-> <<>>,
     totalWhiteAmount |-> 0, totalBlackAmount |-> 0, totalDrawAmount |-> 0,
     totalAmount |-> 0, houseFee |-> 0, resolved |-> FALSE, result |-> "unset"]

\* E carries pools and bets
createBettingPool(E, gameId) == [E EXCEPT !.pools = Put(@, gameId, NewBettingPool)]

SideAmount(pool, side) ==
    IF side = "white" THEN pool.totalWhiteAmount
    ELSE IF side = "black" THEN pool.totalBlackAmount
    ELSE pool.totalDrawAmount

SideBets(pool, side) ==
    IF side = "white" THEN pool.whiteBets
    ELSE IF side = "black" THEN pool.blackBets
    ELSE pool.drawBets

calculateOdds(pool, side) ==
    IF SideAmount(pool, side) = 0 THEN <<2, 1>>
    ELSE IF 10 * (pool.totalAmount - pool.houseFee) < 11 * SideAmount(pool, side)
    THEN <<11, 10>>
    ELSE <<pool.totalAmount - pool.houseFee, SideAmount(pool, side)>>

EngineFee(totalAmount) == (totalAmount * HOUSE_FEE_BPS) \div 10000

WithBet(pool, side, betId, amount) ==
    [pool EXCEPT
        !.whiteBets = IF side = "white" THEN Append(@, betId) ELSE @,
        !.totalWhiteAmount = IF side = "white" THEN @ + amount ELSE @,
        !.blackBets = IF side = "black" THEN Append(@, betId) ELSE @,
        !.totalBlackAmount = IF side = "black" THEN @ + amount ELSE @,
        !.drawBets = IF side \notin {"white", "black"} THEN Append(@, betId) ELSE @,
        !.totalDrawAmount = IF side \notin {"white", "black"} THEN @ + amount ELSE @,
        !.totalAmount = @ + amount,
        !.houseFee = EngineFee(pool.totalAmount + amount)]

\* placeBet returns null and changes nothing for an unknown or resolved pool
BetAccepted(E, gameId) == gameId \in DOMAIN E.pools /\ ~E.pools[gameId].resolved

BettingEngine_placeBet(E, gameId, playerAddress, side, amount) ==
    IF BetAccepted(E, gameId)
    THEN [E EXCEPT
            !.bets = Append(@, [gameId |-> gameId, playerAddress |-> playerAddress,
                                side |-> side, amount |-> amount,
                                odds |-> calculateOdds(E.pools[gameId], side),
                                status |-> "pending", payout |-> 0]),
            !.pools[gameId] = WithBet(@, side, Len(E.bets) + 1, amount)]
    ELSE E

RECURSIVE BetTotal(_, _, _)
BetTotal(allOf, ids, i) ==
    IF i > Len(ids) THEN 0 ELSE allOf[ids[i]].amount + BetTotal(allOf, ids, i + 1)

Members(ids) == {ids[i] : i \in 1..Len(ids)}

\* BigInt(Math.floor(Number(netPool) * (Number(amount) / Number(total)))):
\* with the amounts of EngineAmounts and at most MaxPoolBets bets in a pool
\* the quotient amount / total is 0, 1/4, 1/2, 3/4 or 1, which a double
\* holds exactly, and so is its product with netPool.
Payout(netPool, amount, totalWinningAmount) == (netPool * amount) \div totalWinningAmount

\* the pool is marked resolved before any bet is touched; with winning bets
\* whose amounts add up to 0 the proportion is NaN and BigInt(NaN) throws,
\* which ends the call there and leaves every bet as it was
Settle(E, gameId, result, winningBets, allPoolBets, netPool, totalWinningAmount) ==
    [E EXCEPT
        !.pools[gameId].result = result,
        !.pools[gameId].resolved = TRUE,
        !.bets = IF winningBets # {} /\ totalWinningAmount = 0 THEN @
                 ELSE [b \in 1..Len(E.bets) |->
                        IF b \in winningBets
                        THEN [E.bets[b] EXCEPT
                                !.payout = Payout(netPool, E.bets[b].amount,
                                                  totalWinningAmount),
                                !.status = "won"]
                        ELSE IF b \in allPoolBets
                        THEN [E.bets[b] EXCEPT !.status = "lost"]
                        ELSE E.bets[b]]]

\* resolveBets returns null and changes nothing for an unknown or resolved pool
Resolvable(E, gameId) == gameId \in DOMAIN E.pools /\ ~E.pools[gameId].resolved

WinningList(pool, result) ==
    IF result \in BetSides THEN SideBets(pool, result) ELSE <<>>

resolveBets(E, gameId, result) ==
    IF Resolvable(E, gameId)
    THEN Settle(E, gameId, result,
                Members(WinningList(E.pools[gameId], result)),
                Members(E.pools[gameId].whiteBets) \cup Members(E.pools[gameId].blackBets)
                    \cup Members(E.pools[gameId].drawBets),
                E.pools[gameId].totalAmount - E.pools[gameId].houseFee,
                BetTotal(E.bets, WinningList(E.pools[gameId], result), 1))
    ELSE E

\* resolveBets ends by throwing a RangeError
resolveBetsThrows(E, gameId, result) ==
    /\ Resolvable(E, gameId)
    /\ WinningList(E.pools[gameId], result) # <<>>
    /\ BetTotal(E.bets, WinningList(E.pools[gameId], result), 1) = 0

\* cancelBet returns false and changes nothing for an unknown or settled
\* bet and for an unknown or resolved pool
BetCancellable(E, betId) ==
    /\ betId \in 1..Len(E.bets)
    /\ E.bets[betId].status = "pending"
    /\ E.bets[betId].gameId \in DOMAIN E.pools
    /\ ~E.pools[E.bets[betId].gameId].resolved

WithoutBet(pool, side, index, amount) ==
    [pool EXCEPT
        !.whiteBets = IF side = "white" /\ index # 0 THEN Splice(@, index) ELSE @,
        !.totalWhiteAmount = IF side = "white" /\ index # 0 THEN @ - amount ELSE @,
        !.blackBets = IF side = "black" /\ index # 0 THEN Splice(@, index) ELSE @,
        !.totalBlackAmount = IF side = "black" /\ index # 0 THEN @ - amount ELSE @,
        !.drawBets = IF side \notin {"white", "black"} /\ index # 0
                     THEN Splice(@, index) ELSE @,
        !.totalDrawAmount = IF side \notin {"white", "black"} /\ index # 0
                            THEN @ - amount ELSE @,
        !.totalAmount = @ - amount,
        !.houseFee = EngineFee(pool.totalAmount - amount)]

cancelBet(E, betId) ==
    IF BetCancellable(E, betId)
    THEN [E EXCEPT
            !.pools[E.bets[betId].gameId] =
                WithoutBet(@, E.bets[betId].side,
                           PositionOf(SideBets(@, E.bets[betId].side), betId, 1),
                           E.bets[betId].amount),
            !.bets[betId].status = "cancelled"]
    ELSE E

Engine == [pools |-> pools, bets |-> allBets]

CommitEngine(E) ==
    /\ pools' = E.pools
    /\ allBets' = E.bets

(***************************************************************************)
(* The betting engine on its own: pools are created, bets placed and       *)
(* cancelled, pools resolved.                                              *)
(***************************************************************************)
EngineGames == {1}
EngineAmounts == {0, 100, 300}

PoolSize(pool) == Len(pool.whiteBets) + Len(pool.blackBets) + Len(pool.drawBets)

EngineCall(E) ==
    /\ CommitEngine(E)
    /\ UNCHANGED <<storageVars, boundVars, placed, quantizeVars, managerVars,
                   gameMatches, players, waitingQueues>>

EngineNext ==
    \/ \E g \in EngineGames :
          g \notin DOMAIN pools /\ EngineCall(createBettingPool(Engine, g))
    \/ \E g \in DOMAIN pools, p \in Users, sd \in BetSides, a \in EngineAmounts :
          /\ PoolSize(pools[g]) < MaxPoolBets
          /\ Len(allBets) < MaxEngineBets
          /\ EngineCall(BettingEngine_placeBet(Engine, g, p, sd, a))
    \/ \E b \in 1..Len(allBets) : EngineCall(cancelBet(Engine, b))
    \/ \E g \in DOMAIN pools, r \in GameResults : EngineCall(resolveBets(Engine, g, r))

EngineSpec == Init /\ [][EngineNext]_vars

(***************************************************************************)
(* The off-chain match keeper: class GameManager, with its BettingEngine.  *)
(* A match's id is its position in gameMatches.  The chess position is     *)
(* followed only as far as makeMove reads it: whether the game on the      *)
(* board is over, and how many moves were made.  A move is illegal (the    *)
(* chess library rejects it, as it rejects every move once the game on the *)
(* board is over), quiet, mating (the mover wins) or drawing.              *)
(***************************************************************************)
BettingTiers == {"low", "medium", "unlimited"}
QueueTiers == {"low"}
MoveKinds == {"illegal", "quiet", "mating", "drawing"}
DEFAULT_RATING == 1200
ELO_K == 32
MAX_RATING_GAP == 300
MIN_RATING == 100

NewPlayer ==
    [rating |-> DEFAULT_RATING, totalGames |-> 0, wins |-> 0, losses |-> 0, draws |-> 0,
     preferredBettingTier |-> "low", totalWagered |-> 0, totalWon |-> 0]

NewMatch(whitePlayer, blackPlayer, bettingTier, timeControl) ==
    [whitePlayer |-> whitePlayer, blackPlayer |-> blackPlayer, status |-> "waiting",
     result |-> "null", moves |-> 0, over |-> FALSE,
     bettingTier |-> bettingTier, timeControl |-> timeControl]

GameManager_registerPlayer(address) ==
    /\ players' = Put(players, address, NewPlayer)
    /\ UNCHANGED <<gameMatches, waitingQueues, pools, allBets>>

getPlayerActiveGame(address) ==
    \E i \in 1..Len(gameMatches) :
        /\ address \in {gameMatches[i].whitePlayer, gameMatches[i].blackPlayer}
        /\ gameMatches[i].status = "active"

RatingOf(address) ==
    IF address \in DOMAIN players THEN players[address].rating ELSE DEFAULT_RATING

\* waitingQueue.find: the first waiting address that is not the player, is
\* registered and is rated within 300 points; NoAddress if there is none
RECURSIVE suitableOpponent(_, _, _)
suitableOpponent(waitingQueue, playerAddress, i) ==
    IF i > Len(waitingQueue) THEN NoAddress
    ELSE IF /\ waitingQueue[i] # playerAddress
            /\ waitingQueue[i] \in DOMAIN players
            /\ Distance(RatingOf(playerAddress), players[waitingQueue[i]].rating)
                  <= MAX_RATING_GAP
    THEN waitingQueue[i]
    ELSE suitableOpponent(waitingQueue, playerAddress, i + 1)

Without(waitingQueue, a, b) ==
    LET Stays(addr) == addr # a /\ addr # b IN SelectSeq(waitingQueue, Stays)

\* createMatch and the removal of both players from the queue
createMatch(whitePlayer, blackPlayer, bettingTier, timeControl, waitingQueue) ==
    /\ gameMatches' = Append(gameMatches,
                             NewMatch(whitePlayer, blackPlayer, bettingTier, timeControl))
    /\ CommitEngine(createBettingPool(Engine, Len(gameMatches) + 1))
    /\ waitingQueues' = [waitingQueues EXCEPT
                            ![bettingTier] = Without(waitingQueue, whitePlayer, blackPlayer)]
    /\ UNCHANGED players

findMatchTiered(playerAddress, bettingTier, timeControl, waitingQueue, opponent) ==
    IF opponent # NoAddress
    THEN createMatch(playerAddress, opponent, bettingTier, timeControl, waitingQueue)
    ELSE /\ waitingQueues' = [waitingQueues EXCEPT ![bettingTier] = waitingQueue]
         /\ UNCHANGED <<gameMatches, players, pools, allBets>>

\* findMatch for the low and medium tiers: a player with an active game or
\* already in the queue changes nothing
GameManager_findMatch(playerAddress, bettingTier, timeControl) ==
    IF \/ getPlayerActiveGame(playerAddress)
       \/ PositionOf(waitingQueues[bettingTier], playerAddress, 1) # 0
    THEN UNCHANGED <<gameMatches, players, waitingQueues, pools, allBets>>
    ELSE findMatchTiered(playerAddress, bettingTier, timeControl,
                         Append(waitingQueues[bettingTier], playerAddress),
                         suitableOpponent(Append(waitingQueues[bettingTier], playerAddress),
                                          playerAddress, 1))

\* startGame returns false and changes nothing unless the match is waiting
GameManager_startGame(gameId) ==
    IF gameId \in 1..Len(gameMatches) /\ gameMatches[gameId].status = "waiting"
    THEN /\ gameMatches' = [gameMatches EXCEPT ![gameId].status = "active"]
         /\ UNCHANGED <<players, waitingQueues, pools, allBets>>
    ELSE UNCHANGED <<gameMatches, players, waitingQueues, pools, allBets>>

\* Math.round(32 / (1 + 10^(d / 400))) for a rating difference
\* d = black.rating - white.rating of at most 124 points either way
RECURSIVE EloPoints(_)
EloPoints(d) ==
    IF d < 0 THEN ELO_K - EloPoints(-d)
    ELSE 16 - Cardinality({t \in {11, 33, 55, 78, 101} : d >= t})

ScoreOf(result) == IF result = "white" THEN ELO_K ELSE IF result = "black" THEN 0 ELSE 16

Max(a, b) == IF a > b THEN a ELSE b

updateRatings(P, white, black, result) ==
    [P EXCEPT
        ![white].rating =
            Max(MIN_RATING,
                @ + ScoreOf(result) - EloPoints(P[black].rating - P[white].rating)),
        ![black].rating =
            Max(MIN_RATING,
                @ + EloPoints(P[black].rating - P[white].rating) - ScoreOf(result))]

Counted(P, address, won, lost, result) ==
    IF address \in DOMAIN P
    THEN [P EXCEPT ![address].totalGames = @ + 1,
                   ![address].wins = IF result = won THEN @ + 1 ELSE @,
                   ![address].losses = IF result = lost THEN @ + 1 ELSE @,
                   ![address].draws = IF result = "draw" THEN @ + 1 ELSE @]
    ELSE P

Rated(P, white, black, result) ==
    IF white \in DOMAIN P /\ black \in DOMAIN P /\ result # "null"
    THEN updateRatings(P, white, black, result)
    ELSE P

updatePlayerStats(P, whitePlayer, blackPlayer, result) ==
    Rated(Counted(Counted(P, whitePlayer, "white", "black", result),
                  blackPlayer, "black", "white", result),
          whitePlayer, blackPlayer, result)

\* finishGame on the matches ms; a resolveBets that throws ends the call
\* before the statistics are touched
finishGame(ms, gameId, result) ==
    /\ gameMatches' = [ms EXCEPT ![gameId].status = "finished", ![gameId].result = result]
    /\ CommitEngine(resolveBets(Engine, gameId, result))
    /\ players' = IF resolveBetsThrows(Engine, gameId, result) THEN players
                  ELSE updatePlayerStats(players, ms[gameId].whitePlayer,
                                         ms[gameId].blackPlayer, result)
    /\ UNCHANGED waitingQueues

GameManager_finishGame(gameId, result) ==
    IF gameId \in 1..Len(gameMatches)
    THEN finishGame(gameMatches, gameId, result)
    ELSE UNCHANGED <<gameMatches, players, waitingQueues, pools, allBets>>

\* makeMove's own checks: the match exists, it is the caller's turn by the
\* number of moves made, and the chess library accepts the move
MoveAccepted(gameId, move, playerAddress) ==
    /\ gameId \in 1..Len(gameMatches)
    /\ \/ gameMatches[gameId].moves % 2 = 0
          /\ playerAddress = gameMatches[gameId].whitePlayer
       \/ gameMatches[gameId].moves % 2 # 0
          /\ playerAddress = gameMatches[gameId].blackPlayer
    /\ move # "illegal"
    /\ ~gameMatches[gameId].over

\* chessEngine.getGameResult() after the move
ResultOfMove(match, move) ==
    IF move = "drawing" THEN "draw"
    ELSE IF match.moves % 2 = 0 THEN "white" ELSE "black"

GameManager_makeMove(gameId, move, playerAddress) ==
    IF MoveAccepted(gameId, move, playerAddress)
    THEN IF move \in {"mating", "drawing"}
         THEN finishGame([gameMatches EXCEPT ![gameId].moves = @ + 1,
                                             ![gameId].over = TRUE],
                         gameId, ResultOfMove(gameMatches[gameId], move))
         ELSE /\ gameMatches' = [gameMatches EXCEPT ![gameId].moves = @ + 1]
              /\ UNCHANGED <<players, waitingQueues, pools, allBets>>
    ELSE UNCHANGED <<gameMatches, players, waitingQueues, pools, allBets>>

(***************************************************************************)
(* The match keeper on its own: players register and look for a match,     *)
(* matches are started, played and finished.                               *)
(***************************************************************************)
GameCall(call) ==
    /\ call
    /\ UNCHANGED <<storageVars, boundVars, placed, quantizeVars, managerVars>>

\* a call that finishes a match; the model follows them while no player
\* has more than MaxCountedGames games counted
Finishing(call) ==
    /\ \A p \in DOMAIN players : players[p].totalGames < MaxCountedGames
    /\ GameCall(call)

GameNext ==
    \/ \E p \in Users : GameCall(GameManager_registerPlayer(p))
    \/ \E p \in Users, t \in QueueTiers :
          /\ Len(gameMatches) < MaxMatches
          /\ GameCall(GameManager_findMatch(p, t, 300))
    \/ \E g \in 1..Len(gameMatches) : GameCall(GameManager_startGame(g))
    \/ \E g \in 1..Len(gameMatches), m \in MoveKinds, p \in Users :
          /\ gameMatches[g].moves < MaxMatchMoves
          /\ Finishing(GameManager_makeMove(g, m, p))
    \/ \E g \in 1..Len(gameMatches), r \in GameResults :
          Finishing(GameManager_finishGame(g, r))

GameSpec == Init /\ [][GameNext]_vars

(***************************************************************************)
(* The contract's order book and the off-chain order book side by side:    *)
(* every placeOrder and cancelOrder call is made on both, with amounts     *)
(* that are multiples of the tick size.  The i-th order of the off-chain   *)
(* book is the order the contract stored under placed[i].                  *)
(***************************************************************************)
MirrorInputs == Users \X Sides \X {190 * USDC_UNIT, 200 * USDC_UNIT, 210 * USDC_UNIT}

SideName(side) == IF side = 0 THEN "white" ELSE "black"

MirrorPlace(in) ==
    /\ Len(placed) < MaxMirrorOrders
    /\ placeOrder(in[1], in[2], 300, in[3])
    /\ placed' = Append(placed, OrderIdOf(in[1], in[2], _quantizeAmount(in[3]), 300,
                                          blockNumber))
    /\ OrderbookManager_placeOrder(in[1], SideName(in[2]), in[3], 300)
    /\ UNCHANGED <<boundVars, quantizeVars, engineVars>>

MirrorCancel(i) ==
    /\ cancelOrder(orders[placed[i]].player, placed[i])
    /\ OrderbookManager_cancelOrder(i)
    /\ UNCHANGED <<boundVars, placed, quantizeVars, engineVars>>

MirrorNext ==
    \/ \E in \in MirrorInputs : MirrorPlace(in)
    \/ \E i \in 1..Len(placed) : MirrorCancel(i)

MirrorSpec == Init /\ [][MirrorNext]_vars

(***************************************************************************)
(* The order book together with the settlement of the games it creates:    *)
(* orders are placed and cancelled, the players of a matched game report   *)
(* its result, credited payouts are claimed, and the owner pauses and      *)
(* unpauses the contract.                                                  *)
(***************************************************************************)
EscrowInputs ==
    (Users \X Sides \X {200 * USDC_UNIT}) \cup {<<1, 0, 215 * USDC_UNIT>>}

EscrowResults == {RESULT_WHITE, RESULT_DRAW}

EscrowPlace(in) ==
    /\ Len(placed) < MaxEscrowOrders
    /\ placeOrder(in[1], in[2], 300, in[3])
    /\ placed' = Append(placed, OrderIdOf(in[1], in[2], _quantizeAmount(in[3]), 300,
                                          blockNumber))
    /\ UNCHANGED <<boundVars, quantizeVars, offchainVars>>

EscrowNext ==
    \/ \E in \in EscrowInputs : EscrowPlace(in)
    \/ \E s \in Users, o \in DOMAIN orders : Call(cancelOrder(s, o))
    \/ \E s \in Users, g \in ExistingGames, r \in EscrowResults :
          Call(submitGameResult(s, g, r))
    \/ \E s \in Users : Call(claimPayout(s))
    \/ Call(pause(Owner))
    \/ Call(unpause(Owner))

EscrowSpec == Init /\ [][EscrowNext]_vars

(***************************************************************************)
(* Properties                                                              *)
(***************************************************************************)
\* the step takes game g from not Finished to Finished
Finishes(g) == g \in DOMAIN games /\ games[g].status # 2 /\ games'[g].status = 2

\* the step is a call of one of the three resolving functions on game g
ResolveCall(g) ==
    \E s \in Addresses :
        \/ pauseGame(s, g)
        \/ \E r \in Results : submitGameResult(s, g, r) \/ resolveDisputedGame(s, g, r)

Payouts(bets) == [i \in DOMAIN bets |-> bets[i].payout]

RECURSIVE SumOver(_, _)
SumOver(f, S) ==
    IF S = {} THEN 0
    ELSE LET x == CHOOSE y \in S : TRUE IN f[x] + SumOver(f, S \ {x})

\* C1: each game's pool is resolved at most once.  resultResolved[g] is set
\* by every resolving call and never cleared, so it tells that g's pool has
\* been resolved before; from then on the pool's resolved flag never flips
\* false -> true again, and a step that is a submitGameResult,
\* resolveDisputedGame or pauseGame call on g changes no pendingPayouts
\* balance, no bet and not the fee accumulator.
C1_ResolvedAtMostOnce ==
    [][\A g \in DOMAIN games :
          resultResolved[g] =>
              /\ ~(~bettingPools[g].resolved /\ bettingPools'[g].resolved)
              /\ ResolveCall(g) =>
                     UNCHANGED <<pendingPayouts, gameBets, tokenFeeBalance>>]_vars

\* what a resolved pool has to have paid out
PoolDue(pool, result) ==
    IF result = RESULT_DRAW THEN pool.totalAmount
    ELSE pool.totalAmount - pool.houseFee

\* C2: for every resolved pool the payouts of its GameBets sum to
\* totalAmount - houseFee on a decisive result and to totalAmount on a draw,
\* and the step that resolves a pool adds exactly that amount to
\* pendingPayouts.
C2_PayoutsSumToPool ==
    /\ [](\A g \in DOMAIN games :
             bettingPools[g].resolved =>
                 SumSeq(Payouts(gameBets[g]), 1) = PoolDue(bettingPools[g], games[g].result))
    /\ [][\A g \in DOMAIN games :
             Finishes(g) =>
                 SumOver(pendingPayouts', Addresses) - SumOver(pendingPayouts, Addresses)
                     = PoolDue(bettingPools'[g], games'[g].result)]_vars

\* C3: a decisive resolution of a game with stakes a and b under fee rate r
\* credits the winner (a+b) - floor((a+b)*r/10000), the loser nothing and the
\* fee accumulator floor((a+b)*r/10000).  r is read as the rate at which the
\* pool's fee stands computed (the rate has not changed since the last
\* deposit), the reading under which a rate change cannot refute the claim.
C3_DecisivePayout ==
    [][\A g \in DOMAIN games :
          (/\ Finishes(g)
           /\ games'[g].result # RESULT_DRAW
           /\ Len(gameBets[g]) = 2
           /\ bettingPools[g].houseFee
                  = FeeOf(bettingPools[g].totalAmount, houseFeePercentage))
          => LET a == gameBets[g][1].amount
                 b == gameBets[g][2].amount
                 fee == FeeOf(a + b, houseFeePercentage)
                 white == games[g].whitePlayer
                 black == games[g].blackPlayer
                 winner == IF games'[g].result = RESULT_WHITE THEN white ELSE black
                 loser == IF games'[g].result = RESULT_WHITE THEN black ELSE white
             IN  /\ pendingPayouts'[winner] = pendingPayouts[winner] + (a + b) - fee
                 /\ loser # winner => pendingPayouts'[loser] = pendingPayouts[loser]
                 /\ tokenFeeBalance' = tokenFeeBalance + fee]_vars

\* C5: a game is Active only if exactly two stakes have been escrowed for it.
C5_ActiveHasTwoStakes ==
    \A g \in DOMAIN games : games[g].status = 1 => Len(gameBets[g]) = 2

Players(g) == {games[g].whitePlayer, games[g].blackPlayer}

\* the participant of g opposite to s
OtherOf(s, g) ==
    IF s = games[g].whitePlayer THEN games[g].blackPlayer ELSE games[g].whitePlayer

\* both participants of g have a recorded vote
BothVoted(g) ==
    /\ resultSubmitted[g][games[g].whitePlayer]
    /\ resultSubmitted[g][games[g].blackPlayer]

\* what address p has staked in `bets`, and what of it is still pending
StakeOf(bets, p) == SumFor(bets, [i \in DOMAIN bets |-> bets[i].amount], p, 1)
PendingStakeOf(bets, p) ==
    SumFor(bets, [i \in DOMAIN bets |-> IF bets[i].status = 0 THEN bets[i].amount ELSE 0],
           p, 1)

\* C4: when a game with two stakes is resolved as a draw (by agreeing votes,
\* by override or by pauseGame), every staker's pendingPayouts grows by
\* exactly its own stake, tokenFeeBalance is unchanged, the pool is resolved
\* and its winner is address zero.
C4_DrawRefund ==
    [][\A g \in DOMAIN games :
          (Finishes(g) /\ games'[g].result = RESULT_DRAW /\ Len(gameBets[g]) = 2)
          => /\ \A p \in Addresses :
                    pendingPayouts'[p] = pendingPayouts[p] + StakeOf(gameBets[g], p)
             /\ tokenFeeBalance' = tokenFeeBalance
             /\ bettingPools'[g].resolved
             /\ bettingPools'[g].winner = NoAddress]_vars

\* two distinct participants staked, both voted draw, both hold their refund
C4_Witness ==
    \E g \in DOMAIN games :
        /\ games[g].status = 2 /\ games[g].result = RESULT_DRAW
        /\ Len(gameBets[g]) = 2
        /\ gameBets[g][1].player # gameBets[g][2].player
        /\ \A i \in 1..2 :
              /\ resultSubmitted[g][gameBets[g][i].player]
              /\ resultValue[g][gameBets[g][i].player] = RESULT_DRAW
              /\ pendingPayouts[gameBets[g][i].player] = gameBets[g][i].amount
        /\ bettingPools[g].resolved
        /\ tokenFeeBalance = 0

\* C6: in an Active game, a participant whose opponent has a recorded vote v
\* can submit v, and that call makes the game Finished with result v and
\* resolves its pool.
C6_AgreeingVoteFinishes ==
    \A g \in DOMAIN games : \A s \in Players(g) :
        (games[g].status = 1 /\ resultSubmitted[g][OtherOf(s, g)])
        => ENABLED (/\ submitGameResult(s, g, resultValue[g][OtherOf(s, g)])
                    /\ games'[g].status = 2
                    /\ games'[g].result = resultValue[g][OtherOf(s, g)]
                    /\ bettingPools'[g].resolved)

\* C7: resolveDisputedGame is rejected while a participant has no recorded
\* vote; every override step happens with both votes recorded, and a
\* submitGameResult step finishes a game only when both participants'
\* latest votes equal the final result.
C7_ResolutionNeedsBothVotes ==
    /\ [](\A g \in DOMAIN games : \A s \in Addresses : \A r \in Results :
             ~BothVoted(g) => ~ENABLED resolveDisputedGame(s, g, r))
    /\ [][\A g \in DOMAIN games : \A s \in Addresses : \A r \in Results :
             /\ resolveDisputedGame(s, g, r) => BothVoted(g)
             /\ (submitGameResult(s, g, r) /\ Finishes(g))
                => \A p \in Players(g) :
                       /\ resultSubmitted'[g][p]
                       /\ resultValue'[g][p] = games'[g].result]_vars

\* a game finished decisively although the two recorded votes differ: the
\* owner's override has acted after both participants voted
C7_Witness ==
    \E g \in DOMAIN games :
        /\ games[g].status = 2 /\ games[g].result # RESULT_DRAW
        /\ BothVoted(g)
        /\ resultValue[g][games[g].whitePlayer] # resultValue[g][games[g].blackPlayer]

\* C8: the owner's pauseGame is enabled on every game that is not Finished,
\* whatever the votes; it finishes the game with result draw, resolves the
\* pool with winner none and no fee; with two stakes both are credited in
\* full, with fewer than two every stake still pending is credited to its
\* staker and marked refunded.
C8_PauseGameUnwinds ==
    /\ [](\A g \in DOMAIN games : games[g].status # 2 => ENABLED pauseGame(Owner, g))
    /\ [][\A g \in DOMAIN games :
             pauseGame(Owner, g)
             => /\ games'[g].status = 2 /\ games'[g].result = RESULT_DRAW
                /\ bettingPools'[g].resolved
                /\ bettingPools'[g].winner = NoAddress
                /\ bettingPools'[g].houseFee = 0
                /\ tokenFeeBalance' = tokenFeeBalance
                /\ Len(gameBets[g]) = 2
                   => \A p \in Addresses :
                          pendingPayouts'[p]
                              = pendingPayouts[p] + StakeOf(gameBets[g], p)
                /\ Len(gameBets[g]) < 2
                   => /\ \A p \in Addresses :
                             pendingPayouts'[p]
                                 = pendingPayouts[p] + PendingStakeOf(gameBets[g], p)
                      /\ \A i \in DOMAIN gameBets[g] :
                             gameBets[g][i].status = 0
                             => /\ gameBets'[g][i].status = 3
                                /\ gameBets'[g][i].payout = gameBets[g][i].amount]_vars

\* a game with a single stake and no vote was unwound: its staker holds the
\* refund and no fee was taken
C8_Witness ==
    \E g \in DOMAIN games :
        /\ games[g].status = 2 /\ games[g].result = RESULT_DRAW
        /\ Len(gameBets[g]) = 1
        /\ gameBets[g][1].status = 3
        /\ pendingPayouts[gameBets[g][1].player] = gameBets[g][1].amount
        /\ \A p \in Players(g) : ~resultSubmitted[g][p]
        /\ bettingPools[g].resolved /\ bettingPools[g].winner = NoAddress
        /\ tokenFeeBalance = 0

\* an Active, unresolved game with both stakes in escrow
Escrowed(g) ==
    games[g].status = 1 /\ ~resultResolved[g] /\ Len(gameBets[g]) = 2

\* C9: while the contract is paused, every createGame, placeBet and
\* placeOrder call is rejected, whereas the pause blocks none of
\* submitGameResult, resolveDisputedGame, claimPayout and pauseGame: each is
\* enabled whenever its own preconditions hold.
C9_PauseBlocksOnlyCreation ==
    paused =>
        /\ \A s \in Addresses, b \in Addresses, tc \in TimeControls, t \in Tiers :
              ~ENABLED createGame(s, b, tc, t)
        /\ \A s \in Addresses, g \in DOMAIN games, a \in BetAmounts :
              ~ENABLED placeBet(s, g, a)
        /\ \A s \in Addresses, sd \in Sides, tc \in TimeControls, a \in OrderAmounts :
              ~ENABLED placeOrder(s, sd, tc, a)
        /\ \A g \in DOMAIN games :
              /\ games[g].status # 2 => ENABLED pauseGame(Owner, g)
              /\ Escrowed(g)
                 => /\ \A s \in Players(g), r \in Results :
                          ENABLED submitGameResult(s, g, r)
                    /\ BothVoted(g)
                       => \A r \in Results : ENABLED resolveDisputedGame(Owner, g, r)
        /\ \A p \in Addresses :
              (pendingPayouts[p] > 0 /\ pendingPayouts[p] <= tokenBalance)
              => ENABLED claimPayout(p)

\* the contract is paused while a funded game, with both votes recorded, is
\* still to be finished
C9_Witness ==
    /\ paused
    /\ \E g \in DOMAIN games :
          /\ Escrowed(g)
          /\ BothVoted(g)
          /\ gameBets[g][1].player # gameBets[g][2].player

\* both participants of an Active game have voted and the votes differ
Disputed(g) ==
    /\ games[g].status = 1
    /\ BothVoted(g)
    /\ resultValue[g][games[g].whitePlayer] # resultValue[g][games[g].blackPlayer]

\* the step is an administrative action on g
AdminCall(g) ==
    pauseGame(Owner, g) \/ \E r \in Results : resolveDisputedGame(Owner, g, r)

\* C10 as stated: a game whose two votes differ is not finished by any step
\* that is not an administrative action.
C10_OnlyAdminEndsDispute ==
    [][\A g \in DOMAIN games :
          (Disputed(g) /\ ~AdminCall(g)) => games'[g].status # 2]_vars

\* C10 as the code has it: a game whose two votes differ is finished only
\* by an administrative action or by a participant re-submitting its vote
\* as the opponent's recorded vote; any other step leaves its pool
\* unresolved and the payouts of its bets as they are.
C10_DisputeEndsByAdminOrConcession ==
    [][\A g \in DOMAIN games :
          Disputed(g)
          => /\ Finishes(g)
                => \/ AdminCall(g)
                   \/ \E s \in Players(g) :
                          submitGameResult(s, g, resultValue[g][OtherOf(s, g)])
             /\ ~Finishes(g)
                => /\ ~bettingPools'[g].resolved
                   /\ \A i \in DOMAIN gameBets[g] :
                          gameBets'[g][i].payout = gameBets[g][i].payout]_vars

\* a funded game stands disputed: both stakes escrowed, both votes recorded,
\* the votes differ
C10_Witness ==
    \E g \in DOMAIN games :
        /\ Disputed(g)
        /\ Len(gameBets[g]) = 2
        /\ gameBets[g][1].player # gameBets[g][2].player
        /\ ~resultResolved[g]


(***************************************************************************)
(* Order-book properties, stated over BookSpec.                            *)
(***************************************************************************)
LevelOf(o) == <<orders[o].timeControl, orders[o].side, orders[o].tickAmount>>

Queue(key) == IF key \in DOMAIN orderbookLevels THEN orderbookLevels[key].orderIds ELSE <<>>

\* o is open or partially filled and waits in the queue of its level
Resting(o) ==
    /\ orders[o].status \in {0, 1}
    /\ \E i \in 1..Len(Queue(LevelOf(o))) : Queue(LevelOf(o))[i] = o

PlacedOnce(o) == Cardinality({i \in 1..Len(placed) : placed[i] = o}) = 1

ArrivalOf(o) == CHOOSE i \in 1..Len(placed) : placed[i] = o

\* C11: within one price level resting orders are filled in arrival order:
\* when X and Y rest at the same level and X was placed before Y, no step
\* gives Y a fill and leaves X with an unfilled amount.
C11_FifoWithinLevel ==
    [][\A x, y \in DOMAIN orders :
          ( /\ x # y
            /\ PlacedOnce(x) /\ PlacedOnce(y)
            /\ Resting(x) /\ Resting(y)
            /\ LevelOf(x) = LevelOf(y)
            /\ ArrivalOf(x) < ArrivalOf(y)
            /\ orders'[y].filledAmount > orders[y].filledAmount )
          => orders'[x].filledAmount = orders'[x].amount]_vars


\* C12: in every reachable state every order has 0 <= filledAmount <= tickAmount,
\* and its tickAmount is its amount: no order is ever over-filled.
C12_FillWithinAmount ==
    \A o \in DOMAIN orders :
        /\ 0 <= orders[o].filledAmount
        /\ orders[o].filledAmount <= orders[o].tickAmount
        /\ orders[o].tickAmount = orders[o].amount

\* a pass has filled one order completely and left another, larger one partly filled
C12_Witness ==
    \E o, p \in DOMAIN orders :
        /\ orders[o].filledAmount = orders[o].amount
        /\ 0 < orders[p].filledAmount
        /\ orders[p].filledAmount < orders[p].amount
        /\ orders[p].amount > orders[o].amount


\* C13: between calls the status of every order that is not cancelled (3)
\* follows from its fill: filled (2) when filledAmount = tickAmount > 0,
\* partially filled (1) when 0 < filledAmount < tickAmount, open (0) when
\* filledAmount = 0.
C13_StatusFollowsFill ==
    \A o \in DOMAIN orders :
        orders[o].status # 3 =>
            orders[o].status =
                IF orders[o].filledAmount = 0 THEN 0
                ELSE IF orders[o].filledAmount < orders[o].tickAmount THEN 1
                ELSE 2


\* the order a placeOrder step has just placed
Incoming == placed'[Len(placed')]

BandOf(t) == (t * tolerancePercentage) \div 100

\* C14: every match of a pass pairs the incoming order with an order of the
\* opposite side and the same time control whose tick lies in the inclusive
\* band [t - floor(t*p/100), t + floor(t*p/100)] around the incoming tick t;
\* the games the pass creates carry that time control.
C14_MatchesWithinBand ==
    [][Len(placed') > Len(placed) =>
         /\ \A c \in DOMAIN orders \ {Incoming} :
               orders'[c].filledAmount > orders[c].filledAmount =>
                  /\ orders'[c].side # orders'[Incoming].side
                  /\ orders'[c].timeControl = orders'[Incoming].timeControl
                  /\ orders'[c].tickAmount >=
                        orders'[Incoming].tickAmount - BandOf(orders'[Incoming].tickAmount)
                  /\ orders'[c].tickAmount <=
                        orders'[Incoming].tickAmount + BandOf(orders'[Incoming].tickAmount)
         /\ \A g \in DOMAIN games' \ DOMAIN games :
               games'[g].timeControl = orders'[Incoming].timeControl]_vars

\* the second order placed was matched with a resting order at the upper edge
\* of its band
C14_Witness ==
    /\ Len(placed) = 2
    /\ \E c \in DOMAIN orders :
          /\ orders[c].side # orders[placed[2]].side
          /\ orders[c].tickAmount =
                orders[placed[2]].tickAmount + BandOf(orders[placed[2]].tickAmount)
          /\ orders[c].filledAmount = orders[placed[2]].amount
          /\ orders[placed[2]].filledAmount = orders[placed[2]].amount


FillOf(os, o) == IF o \in DOMAIN os THEN os[o].filledAmount ELSE 0

\* C15: a matching pass creates one new Active game per match, with two
\* stakes of matchAmount each and a pool of 2 * matchAmount, and touches no
\* game that existed before; no fill decreases, and the total increase of
\* filledAmount over all orders equals the total staked into the games the
\* pass created.
C15_FillsEqualStakes ==
    [][Len(placed') > Len(placed) =>
         /\ \A g \in DOMAIN games :
               /\ games'[g] = games[g]
               /\ bettingPools'[g] = bettingPools[g]
               /\ gameBets'[g] = gameBets[g]
         /\ \A g \in DOMAIN games' \ DOMAIN games :
               /\ games'[g].status = 1
               /\ Len(gameBets'[g]) = 2
               /\ gameBets'[g][1].amount = gameBets'[g][2].amount
               /\ bettingPools'[g].totalAmount = 2 * gameBets'[g][1].amount
         /\ \A o \in DOMAIN orders : orders'[o].filledAmount >= orders[o].filledAmount
         /\ SumOver([o \in DOMAIN orders' |-> FillOf(orders', o) - FillOf(orders, o)],
                    DOMAIN orders')
              = SumOver([g \in DOMAIN games' \ DOMAIN games |-> bettingPools'[g].totalAmount],
                        DOMAIN games' \ DOMAIN games)]_vars


InQueue(levels, key, o) ==
    /\ key \in DOMAIN levels
    /\ \E i \in 1..Len(levels[key].orderIds) : levels[key].orderIds[i] = o

\* C16: cancelOrder is accepted only from the owner of an open or partially
\* filled order; the step that cancels an order takes it out of its level and
\* pays out exactly amount - filledAmount; a filled or cancelled order keeps
\* its status and its fill for ever.
C16_CancelIsTerminal ==
    /\ [](\A s \in Addresses, o \in DOMAIN orders :
             ENABLED cancelOrder(s, o) =>
                 orders[o].player = s /\ orders[o].status \in {0, 1})
    /\ [][\A o \in DOMAIN orders :
             /\ (orders[o].status # 3 /\ orders'[o].status = 3) =>
                   /\ orders[o].status \in {0, 1}
                   /\ ~InQueue(orderbookLevels', LevelOf(o), o)
                   /\ tokenBalance' =
                         tokenBalance - (orders[o].amount - orders[o].filledAmount)
             /\ orders[o].status \in {2, 3} =>
                   /\ orders'[o].status = orders[o].status
                   /\ orders'[o].filledAmount = orders[o].filledAmount]_vars


(***************************************************************************)
(* Amount quantization, stated over QuantizeSpec.                          *)
(***************************************************************************)
\* C17: quantize(x) never exceeds x, is a whole number of ticks, and is a
\* fixed point: quantize(quantize(x)) = quantize(x).
C17_QuantizeIdempotent ==
    /\ Len(quantized) >= 1 =>
          /\ quantized[1] <= amountIn
          /\ quantized[1] >= 0
          /\ quantized[1] % tickSize = 0
    /\ Len(quantized) = 2 => quantized[2] = quantized[1]

\* an amount between two ticks was rounded down to a positive tick and
\* quantized a second time
C17_Witness ==
    /\ Len(quantized) = 2
    /\ amountIn % tickSize # 0
    /\ quantized[1] > 0
    /\ quantized[1] < amountIn


(***************************************************************************)
(* Order-book properties, stated over BookSpec (continued).                *)
(***************************************************************************)
BelowOneTick == {0, 1, tickSize \div 2, tickSize - 1}

\* C18: placeOrder with an amount below one tick is rejected in every state,
\* whoever calls it and whatever the side and time control: no order record,
\* level entry, aggregate or token balance changes.
C18_SubTickOrderRejected ==
    \A s \in Addresses, sd \in Sides, tc \in {300, 600}, a \in BelowOneTick :
        ~ENABLED placeOrder(s, sd, tc, a)

\* with orders resting in the book, an order one unit short of a tick is
\* rejected where an order of exactly one tick is accepted
C18_Witness ==
    /\ \E o \in DOMAIN orders : Resting(o)
    /\ ~ENABLED placeOrder(1, 0, 300, tickSize - 1)
    /\ ENABLED placeOrder(1, 0, 300, tickSize)


(***************************************************************************)
(* Payout properties, stated over Spec.                                    *)
(***************************************************************************)
\* C19: claimPayout pays the caller exactly its pendingPayouts balance and
\* zeroes it in the same call; with a zero balance, or when the transfer
\* cannot be made, the call is rejected and the balance stays; a balance only
\* ever decreases by being paid out in full, so claims never pay out more
\* than was credited.
C19_ClaimPaysBalance ==
    /\ [](\A p \in Addresses :
             /\ pendingPayouts[p] = 0 => ~ENABLED claimPayout(p)
             /\ pendingPayouts[p] > tokenBalance => ~ENABLED claimPayout(p)
             /\ (0 < pendingPayouts[p] /\ pendingPayouts[p] <= tokenBalance) =>
                   ENABLED ( /\ claimPayout(p)
                             /\ pendingPayouts'[p] = 0
                             /\ tokenBalance' = tokenBalance - pendingPayouts[p] ))
    /\ [][\A p \in Addresses :
             pendingPayouts'[p] < pendingPayouts[p] =>
                /\ pendingPayouts'[p] = 0
                /\ tokenBalance' = tokenBalance - pendingPayouts[p]
                /\ \A q \in Addresses \ {p} : pendingPayouts'[q] = pendingPayouts[q]]_vars

\* the winner of a game has claimed: its balance is zero again and only the
\* house fee of the pool is left in the contract
C19_Witness ==
    /\ orders = <<>>
    /\ \E g \in DOMAIN games :
          /\ bettingPools[g].resolved
          /\ bettingPools[g].winner # NoAddress
          /\ bettingPools[g].houseFee > 0
          /\ pendingPayouts[bettingPools[g].winner] = 0
          /\ tokenFeeBalance = bettingPools[g].houseFee
          /\ tokenBalance = bettingPools[g].houseFee


\* C20: a resolving step only credits pendingPayouts and the fee accumulator
\* and moves no tokens; an address's pendingPayouts decreases only in its own
\* claimPayout; the fee accumulator decreases only in the owner's
\* withdrawTokenFees, which credits no pendingPayouts balance.
C20_ResolutionOnlyCredits ==
    [][/\ (\E g \in DOMAIN games : Finishes(g) \/ ResolveCall(g)) =>
             /\ tokenBalance' = tokenBalance
             /\ tokenFeeBalance' >= tokenFeeBalance
             /\ \A p \in Addresses : pendingPayouts'[p] >= pendingPayouts[p]
       /\ \A p \in Addresses :
             pendingPayouts'[p] < pendingPayouts[p] =>
                claimPayout(p) /\ pendingPayouts'[p] = 0
       /\ tokenFeeBalance' < tokenFeeBalance =>
             /\ withdrawTokenFees(Owner)
             /\ pendingPayouts' = pendingPayouts
             /\ tokenBalance' = tokenBalance - tokenFeeBalance]_vars

\* a decisive game was resolved with a fee and the owner has withdrawn the
\* fee: the winner's credit is still pending and covered by the contract
C20_Witness ==
    /\ orders = <<>>
    /\ \E g \in DOMAIN games :
          /\ bettingPools[g].resolved
          /\ bettingPools[g].winner # NoAddress
          /\ bettingPools[g].houseFee > 0
          /\ tokenFeeBalance = 0
          /\ pendingPayouts[bettingPools[g].winner]
                = bettingPools[g].totalAmount - bettingPools[g].houseFee
          /\ tokenBalance = pendingPayouts[bettingPools[g].winner]


(***************************************************************************)
(* Game lifecycle and parameters, stated over Spec.                        *)
(***************************************************************************)
\* C21: a game's status never moves backwards, and a Finished game keeps its
\* status, its result, its pool's winner and every bet's payout in every
\* later step.
C21_FinishedIsTerminal ==
    [][\A g \in DOMAIN games :
          /\ games'[g].status >= games[g].status
          /\ games[g].status = 2 =>
                /\ games'[g].status = 2
                /\ games'[g].result = games[g].result
                /\ bettingPools'[g].winner = bettingPools[g].winner
                /\ Payouts(gameBets'[g]) = Payouts(gameBets[g])]_vars


StakeChoices == BetAmounts \cup {50 * USDC_UNIT}

\* the stakes placeBet accepts for game g, and the fee its pool would carry
\* once a stake of a has been added
StakesAccepted(g) == {a \in StakeChoices : _isValidBetAmount(games[g].bettingTier, a)}

FeeAfterStake(g, a) == FeeOf(bettingPools[g].totalAmount + a, houseFeePercentage)

ParameterChange ==
    \/ houseFeePercentage' # houseFeePercentage
    \/ lowTierAmount' # lowTierAmount
    \/ mediumTierAmount' # mediumTierAmount

\* C22: a change of the fee rate or of the tier amounts leaves every existing
\* game as it was: a Waiting game accepts the same stakes and would carry the
\* same fee after the next stake, and every pool keeps its computed fee.
C22_ParamsFixedAtCreation ==
    [][ParameterChange =>
          \A g \in DOMAIN games :
             /\ bettingPools'[g].houseFee = bettingPools[g].houseFee
             /\ games[g].status = 0 =>
                   /\ StakesAccepted(g)' = StakesAccepted(g)
                   /\ \A a \in StakeChoices : FeeAfterStake(g, a)' = FeeAfterStake(g, a)]_vars


\* C23: in every reachable state the fee rate is at most 1000 basis points and
\* tickSize <= lowTierAmount < mediumTierAmount; no setter call outside these
\* bounds, and no setter call by another address than the owner, is accepted.
C23_ParametersInBounds ==
    /\ houseFeePercentage <= MAX_FEE_BPS
    /\ tickSize <= lowTierAmount
    /\ lowTierAmount < mediumTierAmount
    /\ \A s \in Addresses :
          /\ ~ENABLED setHouseFeePercentage(s, MAX_FEE_BPS + 1)
          /\ ~ENABLED setBettingTierAmounts(s, tickSize - 1, 50 * USDC_UNIT)
          /\ ~ENABLED setBettingTierAmounts(s, 50 * USDC_UNIT, 50 * USDC_UNIT)
          /\ s # Owner =>
                /\ ~ENABLED setHouseFeePercentage(s, MAX_FEE_BPS)
                /\ ~ENABLED setBettingTierAmounts(s, 10 * USDC_UNIT + 19, 50 * USDC_UNIT)


(***************************************************************************)
(* The move log, stated over MoveSpec.                                     *)
(***************************************************************************)
AnyMoveBytes == {0, 4, MAX_MOVE_BYTES, MAX_MOVE_BYTES + 1}

\* C24: makeMove is accepted only from a participant of an Active game and
\* only for a move of at most 16 bytes; the move count never exceeds 200; and
\* the step that records a move changes no pool, bet, pendingPayouts balance,
\* fee accumulator, token balance or game status.
C24_MovesAreCapped ==
    /\ [](\A g \in DOMAIN games :
             /\ games[g].moveCount <= MAX_MOVES
             /\ \A s \in Addresses, m \in AnyMoveBytes :
                   ENABLED makeMove(s, g, m) =>
                      /\ s \in Players(g)
                      /\ games[g].status = 1
                      /\ m <= MAX_MOVE_BYTES)
    /\ [][\A g \in DOMAIN games :
             games'[g].moveCount # games[g].moveCount =>
                /\ games'[g].moveCount = games[g].moveCount + 1
                /\ games'[g].status = games[g].status
                /\ games'[g].result = games[g].result
                /\ bettingPools' = bettingPools
                /\ gameBets' = gameBets
                /\ pendingPayouts' = pendingPayouts
                /\ tokenFeeBalance' = tokenFeeBalance
                /\ tokenBalance' = tokenBalance]_vars

\* the log of a game is full and the game has been ended
C24_Witness ==
    \E g \in DOMAIN games : games[g].moveCount = MAX_MOVES /\ games[g].status = 2

\* C25: once the move log holds MAX_MOVES moves, a further move is rejected,
\* as a move of more than MAX_MOVE_BYTES bytes is.
C25_MoveBeyondCapRejected ==
    \A g \in DOMAIN games, s \in Addresses, m \in AnyMoveBytes :
        (games[g].moveCount >= MAX_MOVES \/ m > MAX_MOVE_BYTES) => ~ENABLED makeMove(s, g, m)


(***************************************************************************)
(* Stakes, identifiers and bet statuses, stated over Spec.                 *)
(***************************************************************************)
AnyStake == StakeChoices \cup {0, USDC_UNIT - 1}

ValidForTier(tier, a) ==
    \/ tier = 0 /\ a = lowTierAmount
    \/ tier = 1 /\ a = mediumTierAmount
    \/ tier = 2 /\ a >= USDC_UNIT

CreatedByCreateGame(g) == g[1] = "game"

\* C26: a game made by createGame holds at most two stakes, from distinct
\* participants; placeBet is accepted only from a participant that has not
\* staked yet, only while the game is Waiting and only with an amount valid
\* for the game's tier; and the pool's totalAmount never changes once the
\* game is Active.
C26_StakesOnlyWhileWaiting ==
    /\ [](\A g \in DOMAIN games :
             /\ CreatedByCreateGame(g) =>
                   /\ Len(gameBets[g]) <= 2
                   /\ \A i, j \in DOMAIN gameBets[g] :
                         i # j => gameBets[g][i].player # gameBets[g][j].player
                   /\ \A i \in DOMAIN gameBets[g] : gameBets[g][i].player \in Players(g)
             /\ \A s \in Addresses, a \in AnyStake :
                   ENABLED placeBet(s, g, a) =>
                      /\ s \in Players(g)
                      /\ games[g].status = 0
                      /\ ValidForTier(games[g].bettingTier, a)
                      /\ \A i \in DOMAIN gameBets[g] : gameBets[g][i].player # s)
    /\ [][\A g \in DOMAIN games :
             games[g].status = 1 =>
                bettingPools'[g].totalAmount = bettingPools[g].totalAmount]_vars


\* C27: every createGame call adds a game under an identifier not in use,
\* every placeOrder call adds an order under an identifier not in use, and
\* neither overwrites a game, pool or order record that exists.
C27_FreshIdentifiers ==
    [][/\ \A s \in Users, b \in Users, tc \in TimeControls, t \in Tiers :
             createGame(s, b, tc, t) =>
                /\ DOMAIN games' # DOMAIN games
                /\ \A g \in DOMAIN games :
                      games'[g] = games[g] /\ bettingPools'[g] = bettingPools[g]
       /\ \A s \in Users, sd \in Sides, tc \in TimeControls, a \in OrderAmounts :
             placeOrder(s, sd, tc, a) =>
                /\ DOMAIN orders' # DOMAIN orders
                /\ \A g \in DOMAIN games :
                      games'[g] = games[g] /\ bettingPools'[g] = bettingPools[g]]_vars


\* C28: in a resolved pool no bet is pending (0): with a winner, the winner's
\* bet is won (1) and the other bet is lost (2); without a winner (draw or
\* emergency unwind) every bet is refunded (3).
C28_ResolvedBetStatus ==
    \A g \in DOMAIN games :
        bettingPools[g].resolved =>
            \A i \in DOMAIN gameBets[g] :
                gameBets[g][i].status =
                    IF bettingPools[g].winner = NoAddress THEN 3
                    ELSE IF gameBets[g][i].player = bettingPools[g].winner THEN 1
                    ELSE 2


(***************************************************************************)
(* Order-book aggregates and search order, stated over BookSpec.           *)
(***************************************************************************)
\* the unfilled remainder of o if o is open or partially filled at level key
OpenRemainderAt(key, o) ==
    IF LevelOf(o) = key /\ orders[o].status \in {0, 1}
    THEN orders[o].amount - orders[o].filledAmount
    ELSE 0

DistinctPlacements == \A i, k \in 1..Len(placed) : i # k => placed[i] # placed[k]

\* C29: every level's totalAmount is the sum of amount - filledAmount over
\* the open and partially filled orders of that level (stated for the states
\* in which no order identifier was placed twice).
C29_LevelTotalIsOpenRemainder ==
    DistinctPlacements =>
        \A key \in DOMAIN orderbookLevels :
            orderbookLevels[key].totalAmount =
                SumOver([o \in DOMAIN orders |-> OpenRemainderAt(key, o)], DOMAIN orders)


\* the position of a counterpart level in the search of an order at tick t:
\* the exact level, then the levels above in ascending order, then the levels
\* below in descending order
SearchRank(t, tick) ==
    IF tick = t THEN 0
    ELSE IF tick > t THEN (tick - t) \div tickSize
    ELSE MaxBookOrders * 1000 + (t - tick) \div tickSize

\* after the step, d still waits with an unfilled remainder at a level the
\* incoming order may match
StillWaiting(d) ==
    /\ orders'[d].side # orders'[Incoming].side
    /\ orders'[d].timeControl = orders'[Incoming].timeControl
    /\ orders'[d].tickAmount >=
          orders'[Incoming].tickAmount - BandOf(orders'[Incoming].tickAmount)
    /\ orders'[d].tickAmount <=
          orders'[Incoming].tickAmount + BandOf(orders'[Incoming].tickAmount)
    /\ orders'[d].status \in {0, 1}
    /\ orders'[d].filledAmount < orders'[d].amount
    /\ InQueue(orderbookLevels',
               <<orders'[d].timeControl, orders'[d].side, orders'[d].tickAmount>>, d)

\* C30: a matching pass takes the exact level first, then the levels above in
\* ascending order, then the levels below in descending order: an order gets
\* a fill only if no order at a level searched earlier is left waiting with an
\* unfilled remainder.
C30_SearchOrder ==
    [][Len(placed') > Len(placed) =>
         \A c, d \in DOMAIN orders \ {Incoming} :
            (orders'[c].filledAmount > orders[c].filledAmount /\ StillWaiting(d)) =>
                SearchRank(orders'[Incoming].tickAmount, orders'[d].tickAmount)
                   >= SearchRank(orders'[Incoming].tickAmount, orders'[c].tickAmount)]_vars

\* the fourth order found 10 USDC left at the level above, took them, and
\* took the rest from the level below
C30_Witness ==
    /\ Len(placed) = 4
    /\ orders[placed[4]].filledAmount = orders[placed[4]].amount
    /\ \E up, down \in DOMAIN orders :
          /\ orders[up].side # orders[placed[4]].side
          /\ orders[down].side # orders[placed[4]].side
          /\ orders[up].tickAmount = orders[placed[4]].tickAmount + tickSize
          /\ orders[up].filledAmount = orders[up].amount
          /\ orders[down].tickAmount = orders[placed[4]].tickAmount - tickSize
          /\ orders[down].filledAmount = orders[placed[4]].amount - tickSize


\* every level of the off-chain book, as <<key, position>>
ManagerLevels ==
    {kl \in (DOMAIN orderbooks) \X (1..MaxManagerOrders) : kl[2] <= Len(orderbooks[kl[1]])}

\* C32: in the off-chain order book, for any requested amounts, every order
\* has 0 <= filledAmount <= tickAmount, every match amount is a positive
\* multiple of the tick size, no level's totalAmount is negative, and an
\* order whose fills reach its tickAmount has status filled.
C32_OffchainFillsOnTicks ==
    /\ \A i \in 1..Len(allOrders) :
          /\ 0 <= allOrders[i].filledAmount
          /\ allOrders[i].filledAmount <= allOrders[i].tickAmount
          /\ allOrders[i].filledAmount = allOrders[i].tickAmount
                => allOrders[i].status \in {"filled", "cancelled"}
    /\ \A k \in 1..Len(matches) :
          /\ matches[k].matchAmount > 0
          /\ matches[k].matchAmount % TICK_SIZE = 0
    /\ \A kl \in ManagerLevels : orderbooks[kl[1]][kl[2]].totalAmount >= 0


\* every order so far was requested with a multiple of the tick size
TickMultiplesOnly == \A i \in 1..Len(allOrders) : allOrders[i].amount = allOrders[i].tickAmount

\* C33: a completely filled order that is still at the head of a level
\* queue is taken off the queue without effect when a later pass reaches it:
\* the off-chain book, fed with tick multiples only, never records a match
\* (and so never creates a game) with amount 0.
C33_FilledHeadIsSkipped ==
    TickMultiplesOnly => \A k \in 1..Len(matches) : matches[k].matchAmount > 0


\* C31: the off-chain order book makes the same matches as the contract:
\* after any sequence of placeOrder and cancelOrder calls with tick-multiple
\* amounts made on both, every order has received the same fills in both
\* (stated for the states in which the contract gave no identifier twice).
C31_SameFillsInBothBooks ==
    DistinctPlacements =>
        \A i \in 1..Len(placed) : orders[placed[i]].filledAmount = allOrders[i].filledAmount


\* the bets queued in an off-chain pool
PoolBets(pool) == Members(pool.whiteBets) \cup Members(pool.blackBets) \cup Members(pool.drawBets)

RECURSIVE PayoutTotal(_)
PayoutTotal(ids) ==
    IF ids = {} THEN 0
    ELSE LET b == CHOOSE x \in ids : TRUE IN allBets[b].payout + PayoutTotal(ids \ {b})

\* C35: an off-chain pool is resolved at most once and frozen afterwards:
\* once resolveBets has run on it, every bet of the pool is won or lost and
\* the payouts add up to at most totalAmount - houseFee, and no later call
\* changes the pool or its bets.
C35_ResolvedPoolSettled ==
    /\ [](\A g \in DOMAIN pools :
            pools[g].resolved =>
               /\ \A b \in PoolBets(pools[g]) : allBets[b].status \in {"won", "lost"}
               /\ PayoutTotal(PoolBets(pools[g]))
                     <= pools[g].totalAmount - pools[g].houseFee)
    /\ [][\A g \in DOMAIN pools :
             pools[g].resolved =>
                /\ pools'[g] = pools[g]
                /\ \A b \in PoolBets(pools[g]) : allBets'[b] = allBets[b]]_vars


\* C34: in the off-chain match keeper Finished is terminal and moves are
\* made only in Active matches: no step changes the status, the result, the
\* move list or the pool of a finished match, no step counts another game
\* for a player once every match is finished, and every step that adds a
\* move to a match starts with that match Active.
C34_OffchainFinishedIsFinal ==
    [][/\ \A g \in 1..Len(gameMatches) :
             /\ gameMatches[g].status = "finished"
                  => /\ gameMatches'[g] = gameMatches[g]
                     /\ pools'[g] = pools[g]
             /\ gameMatches'[g].moves # gameMatches[g].moves
                  => gameMatches[g].status = "active"
       /\ (\A g \in 1..Len(gameMatches) : gameMatches[g].status = "finished")
             => \A p \in DOMAIN players : players'[p].totalGames <= players[p].totalGames
      ]_vars


\* what the contract owes: credited balances, accumulated fees, the pools
\* not yet resolved and the unfilled remainders of the orders still resting
Liabilities ==
    SumOver(pendingPayouts, Addresses)
      + tokenFeeBalance
      + SumOver([g \in DOMAIN bettingPools |->
                    IF bettingPools[g].resolved THEN 0 ELSE bettingPools[g].totalAmount],
                DOMAIN bettingPools)
      + SumOver([o \in DOMAIN orders |->
                    IF orders[o].status \in {0, 1}
                    THEN orders[o].amount - orders[o].filledAmount ELSE 0],
                DOMAIN orders)

\* C36: the contract is solvent: its token balance covers the sum of all
\* pendingPayouts, the fee balance, the totalAmount of every unresolved pool
\* and the unfilled remainder of every open or partially filled order.
C36_Solvent == tokenBalance >= Liabilities


\* C37: the white and the black player of every game are different
\* addresses, whether the game came from createGame or from the matching of
\* two orders.
C37_PlayersDiffer ==
    \A g \in DOMAIN games : games[g].whitePlayer # games[g].blackPlayer


\* the participant on the winning side of result r in game g, address zero
\* for a draw
WinnerOf(g, r) ==
    IF r = RESULT_WHITE THEN games[g].whitePlayer
    ELSE IF r = RESULT_BLACK THEN games[g].blackPlayer
    ELSE NoAddress

\* C38: for every game the three records of its end agree: status Finished,
\* resultResolved and the pool's resolved flag are all true or all false,
\* and when they are true the game's result is resultFinal and the pool's
\* winner is the participant on the winning side (address zero for a draw).
C38_EndRecordsAgree ==
    \A g \in DOMAIN games :
        /\ (games[g].status = 2) = resultResolved[g]
        /\ resultResolved[g] = bettingPools[g].resolved
        /\ resultResolved[g] =>
              /\ games[g].result = resultFinal[g]
              /\ bettingPools[g].winner = WinnerOf(g, resultFinal[g])


\* everything credited so far and not yet paid out
Credited == SumOver(pendingPayouts, Addresses) + tokenFeeBalance

\* the step takes stakes of g's unresolved pool out of escrow
LeavesEscrow(g) ==
    /\ ~bettingPools[g].resolved
    /\ \/ bettingPools'[g].resolved
       \/ bettingPools'[g].totalAmount < bettingPools[g].totalAmount

QueuedRemainderAt(key, o) ==
    IF orders[o].status \in {0, 1} /\ InQueue(orderbookLevels, key, o)
    THEN orders[o].amount - orders[o].filledAmount
    ELSE 0

QueuedRemainder(key) ==
    SumOver([o \in DOMAIN orders |-> QueuedRemainderAt(key, o)], DOMAIN orders)

\* the step cancels o
Cancels(o) == orders[o].status \in {0, 1} /\ orders'[o].status = 3

\* C40: no underflow blocks the book: every level's totalAmount is at least
\* the sum of the unfilled remainders of the open and partially filled
\* orders queued at it; cancelOrder by the owner of an open or partially
\* filled order is enabled in every reachable state, paused or not; and a
\* cancellation pays exactly the order's unfilled remainder out of the
\* contract.  (Stated for the states in which no order identifier was placed
\* twice.)
C40_NoUnderflowBlocksBook ==
    /\ [](\A key \in DOMAIN orderbookLevels :
             orderbookLevels[key].totalAmount >= QueuedRemainder(key))
    /\ [](DistinctPlacements =>
             \A o \in DOMAIN orders :
                 orders[o].status \in {0, 1} => ENABLED cancelOrder(orders[o].player, o))
    /\ [][\A o \in DOMAIN orders :
             Cancels(o) =>
                 tokenBalance' = tokenBalance - (orders[o].amount - orders[o].filledAmount)]_vars

====
